---- MODULE Spec2Model ----
(***************************************************************************)
(* A model of singer_rs: the Singer tap/target protocol engine.            *)
(*                                                                         *)
(*   - the wire format of Message (src/src/lib.rs) as serde_json writes    *)
(*     and reads it, byte by byte;                                         *)
(*   - MessageWriter over Arc<Mutex<BufWriter<W>>> (src/src/tap.rs);       *)
(*   - the target's Context and Target::process_reader                     *)
(*     (src/src/target.rs).                                                *)
(*                                                                         *)
(* A byte is a one-character string, a byte string a sequence of bytes.    *)
(* Option<T> is a sequence of length 0 (None) or 1 (Some).                 *)
(***************************************************************************)
EXTENDS Integers, Sequences, FiniteSets, TLC

(***************************************************************************)
(* Bounds of the model.                                                    *)
(***************************************************************************)
\* write calls (write_message or a raw write) made on one writer
MaxWrites == 3
\* capacity of the BufWriter's buffer, in bytes
BufCap == 24
\* InnerWriter clones alive beside the writer's own two
MaxClones == 1
\* context switches between the threads of the concurrent specification
MaxSwitches == 2
\* handles of one writer that call write_message concurrently
NumHandles == 2
\* write_message calls one handle makes in the concurrent specification
MaxCalls == 1
\* set_option calls made on one tap Context
MaxSets == 3
\* bytes one write of the child process puts into its stdout pipe, at most
ChildChunk == 16
\* bytes one read of std::io::copy takes from the pipe, at most
CopyBuf == 12
\* lines of an input that process_reader is given as it is
MaxLines == 3
\* bytes the child's stderr pipe holds before a write to it blocks
PipeCap == 8

(***************************************************************************)
(* Bytes.                                                                  *)
(***************************************************************************)
NL == "\n"
QUOTE == "\""
BSLASH == "\\"
EOF == "<eof>"

Digits == <<"0", "1", "2", "3", "4", "5", "6", "7", "8", "9">>

At(b, i) == IF i >= 1 /\ i <= Len(b) THEN b[i] ELSE EOF

IsDigit(c) == \E d \in 1..10 : Digits[d] = c

DigitVal(c) == (CHOOSE d \in 1..10 : Digits[d] = c) - 1

IsWhitespace(c) == c \in {" ", NL, "\t", "\r"}

\* the concatenation of a sequence of byte strings (by halves: the
\* recursion stays shallow on long sequences)
RECURSIVE Flatten(_)
Flatten(chunks) ==
    LET n == Len(chunks)
        h == n \div 2
    IN  CASE n = 0 -> <<>>
          [] n = 1 -> chunks[1]
          [] OTHER -> Flatten(SubSeq(chunks, 1, h))
                      \o Flatten(SubSeq(chunks, h + 1, n))

Count(b, c) == Cardinality({i \in 1..Len(b) : b[i] = c})

(***************************************************************************)
(* serde_json::Value.  An object holds its entries as a sequence of        *)
(* <<key, value>> pairs.                                                   *)
(***************************************************************************)
JNull == [t |-> "null"]
JInt(n) == [t |-> "int", n |-> n]
JStr(s) == [t |-> "str", s |-> s]
JArr(a) == [t |-> "arr", a |-> a]
JObj(o) == [t |-> "obj", o |-> o]

(***************************************************************************)
(* The serializer: serde_json::Serializer with the compact formatter       *)
(* (tap.rs:167).  It hands the document to its writer in pieces, one       *)
(* write per structural token, per number, per run of plain string bytes   *)
(* and per escape; XxxChunks is the sequence of those writes.              *)
(***************************************************************************)
RECURSIVE NatChars(_)
NatChars(n) ==
    IF n < 10 THEN <<Digits[n + 1]>>
    ELSE NatChars(n \div 10) \o <<Digits[(n % 10) + 1]>>

IntChars(n) == IF n < 0 THEN <<"-">> \o NatChars(0 - n) ELSE NatChars(n)

\* an escape table without the control characters
NeedsEscapeNoControl(c) == c \in {QUOTE, BSLASH}

NeedsEscape(c) == c \in {QUOTE, BSLASH, NL}

EscapeOf(c) ==
    CASE c = QUOTE -> <<BSLASH, QUOTE>>
      [] c = BSLASH -> <<BSLASH, BSLASH>>
      [] c = NL -> <<BSLASH, "n">>

RECURSIVE Fragments(_, _, _)
Fragments(s, i, run) ==
    LET plain == IF run = <<>> THEN <<>> ELSE <<run>>
    IN  IF i > Len(s) THEN plain
        ELSE IF NeedsEscape(s[i])
             THEN plain \o <<EscapeOf(s[i])>> \o Fragments(s, i + 1, <<>>)
             ELSE Fragments(s, i + 1, Append(run, s[i]))

StrChunks(s) == <<<<QUOTE>>>> \o Fragments(s, 1, <<>>) \o <<<<QUOTE>>>>

RECURSIVE ValChunks(_)
RECURSIVE ArrChunks(_, _)
RECURSIVE ObjChunks(_, _)
ValChunks(v) ==
    CASE v.t = "null" -> <<<<"n", "u", "l", "l">>>>
      [] v.t = "int" -> <<IntChars(v.n)>>
      [] v.t = "str" -> StrChunks(v.s)
      [] v.t = "arr" -> <<<<"[">>>> \o ArrChunks(v.a, 1) \o <<<<"]">>>>
      [] v.t = "obj" -> <<<<"{">>>> \o ObjChunks(v.o, 1) \o <<<<"}">>>>

ArrChunks(a, i) ==
    IF i > Len(a) THEN <<>>
    ELSE (IF i = 1 THEN <<>> ELSE <<<<",">>>>)
         \o ValChunks(a[i]) \o ArrChunks(a, i + 1)

ObjChunks(o, i) ==
    IF i > Len(o) THEN <<>>
    ELSE (IF i = 1 THEN <<>> ELSE <<<<",">>>>)
         \o StrChunks(o[i][1]) \o <<<<":">>>> \o ValChunks(o[i][2])
         \o ObjChunks(o, i + 1)

(***************************************************************************)
(* The Message model (lib.rs:48-89) and its serde representation: an       *)
(* internally tagged enum, tag "type", variant names in upper case.        *)
(***************************************************************************)
K_type == <<"t", "y", "p", "e">>
K_value == <<"v", "a", "l", "u", "e">>
K_stream == <<"s", "t", "r", "e", "a", "m">>
K_schema == <<"s", "c", "h", "e", "m", "a">>
K_key_properties ==
    <<"k", "e", "y", "_", "p", "r", "o", "p", "e", "r", "t", "i", "e", "s">>
K_bookmark_properties ==
    <<"b", "o", "o", "k", "m", "a", "r", "k", "_",
      "p", "r", "o", "p", "e", "r", "t", "i", "e", "s">>
K_record == <<"r", "e", "c", "o", "r", "d">>
K_version == <<"v", "e", "r", "s", "i", "o", "n">>
K_time_extracted ==
    <<"t", "i", "m", "e", "_", "e", "x", "t", "r", "a", "c", "t", "e", "d">>

VariantName(ty) ==
    CASE ty = "State" -> <<"S", "t", "a", "t", "e">>
      [] ty = "Schema" -> <<"S", "c", "h", "e", "m", "a">>
      [] ty = "Record" -> <<"R", "e", "c", "o", "r", "d">>

Lower == <<"a", "c", "d", "e", "h", "m", "o", "r", "t">>
Upper == <<"A", "C", "D", "E", "H", "M", "O", "R", "T">>

ToUpper(c) ==
    IF \E k \in 1..Len(Lower) : Lower[k] = c
    THEN Upper[CHOOSE k \in 1..Len(Lower) : Lower[k] = c]
    ELSE c

Uppercase(s) == [k \in 1..Len(s) |-> ToUpper(s[k])]

Variants == {"State", "Schema", "Record"}

\* chrono's DateTime<Utc>: the model's instants are whole seconds 0..9
\* after the epoch, written as RFC 3339.
TimePrefix ==
    <<"1", "9", "7", "0", "-", "0", "1", "-", "0", "1", "T",
      "0", "0", ":", "0", "0", ":", "0">>

FormatTime(t) == TimePrefix \o <<Digits[t + 1]>> \o <<"Z">>

StateMsg(v) == [type |-> "State", value |-> v]

SchemaMsg(s, doc, keys, bookmarks) ==
    [type |-> "Schema", stream |-> s, schema |-> doc,
     key_properties |-> keys, bookmark_properties |-> bookmarks]

RecordMsg(s, payload, ver, time) ==
    [type |-> "Record", stream |-> s, record |-> payload,
     version |-> ver, time_extracted |-> time]

\* Record::new (lib.rs:70-77)
NewRecord(s, payload) == RecordMsg(s, payload, <<>>, <<>>)

StringsJson(ss) == JArr([k \in 1..Len(ss) |-> JStr(ss[k])])

\* the tag without rename_all: the variant's name as declared
TagEntryAsDeclared(m) == <<K_type, JStr(VariantName(m.type))>>

TagEntry(m) == <<K_type, JStr(Uppercase(VariantName(m.type)))>>

\* the document the derived Serialize writes for a Message
MsgObj(m) ==
    CASE m.type = "State" ->
           JObj(<<TagEntry(m), <<K_value, m.value>> >>)
      [] m.type = "Schema" ->
           JObj(<<TagEntry(m),
                  <<K_stream, JStr(m.stream)>>,
                  <<K_schema, m.schema>>,
                  <<K_key_properties, StringsJson(m.key_properties)>>,
                  <<K_bookmark_properties,
                    IF m.bookmark_properties = <<>> THEN JNull
                    ELSE StringsJson(m.bookmark_properties[1])>> >>)
      [] m.type = "Record" ->
           JObj(<<TagEntry(m),
                  <<K_stream, JStr(m.stream)>>,
                  <<K_record, m.record>>,
                  <<K_version,
                    IF m.version = <<>> THEN JNull
                    ELSE JStr(m.version[1])>>,
                  <<K_time_extracted,
                    IF m.time_extracted = <<>> THEN JNull
                    ELSE JStr(FormatTime(m.time_extracted[1]))>> >>)

\* the writes of message.serialize(&mut self.ser) (tap.rs:173)
SerChunks(m) == ValChunks(MsgObj(m))

\* the bytes of one message: serde_json::to_vec(&m)
Json(m) == Flatten(SerChunks(m))

(***************************************************************************)
(* The deserializer: serde_json reading one JSON value from byte string b  *)
(* at index i.  The result is [ok |-> FALSE] or                            *)
(* [ok |-> TRUE, v |-> value, next |-> index after the value].             *)
(***************************************************************************)
Fail == [ok |-> FALSE]
Parsed(v, next) == [ok |-> TRUE, v |-> v, next |-> next]

RECURSIVE SkipWs(_, _)
SkipWs(b, i) == IF IsWhitespace(At(b, i)) THEN SkipWs(b, i + 1) ELSE i

\* the bytes that end a run of plain string bytes
EndsRun(c) == c \in {EOF, QUOTE, BSLASH, NL, "\t", "\r"}

\* the index of the first byte from i on that ends a run
RunEnd(b, i) ==
    CHOOSE j \in i..(Len(b) + 1) :
        EndsRun(At(b, j)) /\ \A k \in i..(j - 1) : ~EndsRun(b[k])

\* a string's contents from index i, acc being the contents read so far
RECURSIVE ParseStr(_, _, _)
ParseStr(b, i, acc) ==
    LET j == RunEnd(b, i)
        c == At(b, j)
        e == At(b, j + 1)
        run == acc \o SubSeq(b, i, j - 1)
    IN  CASE c = QUOTE -> Parsed(run, j + 1)
          [] c = BSLASH ->
               (CASE e = "n" -> ParseStr(b, j + 2, Append(run, NL))
                  [] e = QUOTE -> ParseStr(b, j + 2, Append(run, QUOTE))
                  [] e = BSLASH -> ParseStr(b, j + 2, Append(run, BSLASH))
                  [] OTHER -> Fail)
          [] OTHER -> Fail

RECURSIVE ParseDigits(_, _, _)
ParseDigits(b, i, n) ==
    IF IsDigit(At(b, i))
    THEN ParseDigits(b, i + 1, 10 * n + DigitVal(At(b, i)))
    ELSE Parsed(n, i)

ParseNat(b, i) ==
    CASE At(b, i) = "0" ->
           IF IsDigit(At(b, i + 1)) THEN Fail ELSE Parsed(0, i + 1)
      [] IsDigit(At(b, i)) -> ParseDigits(b, i, 0)
      [] OTHER -> Fail

ParseInt(b, i) ==
    IF At(b, i) = "-"
    THEN LET r == ParseNat(b, i + 1)
         IN  IF r.ok THEN Parsed(JInt(0 - r.v), r.next) ELSE Fail
    ELSE LET r == ParseNat(b, i)
         IN  IF r.ok THEN Parsed(JInt(r.v), r.next) ELSE Fail

RECURSIVE ParseValue(_, _)
RECURSIVE ParseElems(_, _, _)
RECURSIVE ParseEntries(_, _, _)
ParseValue(b, i) ==
    LET c == At(b, i)
    IN  CASE c = "n" ->
               IF i + 3 <= Len(b) /\ SubSeq(b, i, i + 3) = <<"n", "u", "l", "l">>
               THEN Parsed(JNull, i + 4) ELSE Fail
          [] c = QUOTE ->
               LET r == ParseStr(b, i + 1, <<>>)
               IN  IF r.ok THEN Parsed(JStr(r.v), r.next) ELSE Fail
          [] c = "-" \/ IsDigit(c) -> ParseInt(b, i)
          [] c = "[" ->
               LET j == SkipWs(b, i + 1)
               IN  IF At(b, j) = "]" THEN Parsed(JArr(<<>>), j + 1)
                   ELSE ParseElems(b, j, <<>>)
          [] c = "{" ->
               LET j == SkipWs(b, i + 1)
               IN  IF At(b, j) = "}" THEN Parsed(JObj(<<>>), j + 1)
                   ELSE ParseEntries(b, j, <<>>)
          [] OTHER -> Fail

\* the elements of an array, from the first byte of an element
ParseElems(b, i, acc) ==
    LET r == ParseValue(b, i)
    IN  IF ~r.ok THEN Fail
        ELSE LET k == SkipWs(b, r.next)
             IN  CASE At(b, k) = "," ->
                        ParseElems(b, SkipWs(b, k + 1), Append(acc, r.v))
                   [] At(b, k) = "]" -> Parsed(JArr(Append(acc, r.v)), k + 1)
                   [] OTHER -> Fail

\* the entries of an object, from the first byte of a key
ParseEntries(b, i, acc) ==
    IF At(b, i) # QUOTE THEN Fail
    ELSE LET key == ParseStr(b, i + 1, <<>>)
         IN  IF ~key.ok THEN Fail
             ELSE LET c == SkipWs(b, key.next)
                  IN  IF At(b, c) # ":" THEN Fail
                      ELSE LET r == ParseValue(b, SkipWs(b, c + 1))
                           IN  IF ~r.ok THEN Fail
                               ELSE LET k == SkipWs(b, r.next)
                                        e == Append(acc, <<key.v, r.v>>)
                                    IN  CASE At(b, k) = "," ->
                                               ParseEntries(b, SkipWs(b, k + 1), e)
                                          [] At(b, k) = "}" ->
                                               Parsed(JObj(e), k + 1)
                                          [] OTHER -> Fail

(***************************************************************************)
(* serde_json's Map is a BTreeMap: keys in byte order, a repeated key      *)
(* keeps its last value.  Canon is the Value a parsed document becomes.    *)
(***************************************************************************)
ByteOrder ==
    <<"\t", NL, "\r", " ", QUOTE, ",", "-",
      "0", "1", "2", "3", "4", "5", "6", "7", "8", "9", ":",
      "A", "C", "D", "E", "H", "M", "O", "R", "S", "T", "Z",
      "[", BSLASH, "]", "_",
      "a", "b", "c", "d", "e", "f", "g", "h", "i", "j", "k", "l", "m",
      "n", "o", "p", "q", "r", "s", "t", "u", "v", "w", "x", "y", "z",
      "{", "}">>

Code(c) == CHOOSE k \in 1..Len(ByteOrder) : ByteOrder[k] = c

RECURSIVE KeyLess(_, _)
KeyLess(a, b) ==
    CASE b = <<>> -> FALSE
      [] a = <<>> -> TRUE
      [] Head(a) = Head(b) -> KeyLess(Tail(a), Tail(b))
      [] OTHER -> Code(Head(a)) < Code(Head(b))

RECURSIVE MapInsert(_, _, _)
MapInsert(o, k, v) ==
    CASE o = <<>> -> <<<<k, v>>>>
      [] Head(o)[1] = k -> <<<<k, v>>>> \o Tail(o)
      [] KeyLess(k, Head(o)[1]) -> <<<<k, v>>>> \o o
      [] OTHER -> <<Head(o)>> \o MapInsert(Tail(o), k, v)

RECURSIVE Canon(_)
RECURSIVE CanonEntries(_, _, _)
Canon(v) ==
    CASE v.t = "arr" -> JArr([k \in 1..Len(v.a) |-> Canon(v.a[k])])
      [] v.t = "obj" -> JObj(CanonEntries(v.o, 1, <<>>))
      [] OTHER -> v

CanonEntries(o, i, acc) ==
    IF i > Len(o) THEN acc
    ELSE CanonEntries(o, i + 1, MapInsert(acc, o[i][1], Canon(o[i][2])))

HasKey(o, k) == \E i \in 1..Len(o) : o[i][1] = k

KeyCount(o, k) == Cardinality({i \in 1..Len(o) : o[i][1] = k})

Get(o, k) == o[CHOOSE i \in 1..Len(o) : o[i][1] = k][2]

(***************************************************************************)
(* The derived Deserialize of Message (lib.rs:80-89) and of its variants   *)
(* (lib.rs:48-67): the tag selects the variant, a field may appear once,   *)
(* unknown fields are skipped, a missing Option field is None and any      *)
(* other missing field an error.  The result is [ok |-> FALSE] or          *)
(* [ok |-> TRUE, m |-> message].                                           *)
(***************************************************************************)
NoMessage == [ok |-> FALSE]
Decoded(m) == [ok |-> TRUE, m |-> m]

VariantOfTag(tag) ==
    IF \E ty \in Variants : Uppercase(VariantName(ty)) = tag
    THEN <<CHOOSE ty \in Variants : Uppercase(VariantName(ty)) = tag>>
    ELSE <<>>

ParseTime(s) ==
    IF Len(s) = Len(TimePrefix) + 2
       /\ SubSeq(s, 1, Len(TimePrefix)) = TimePrefix
       /\ IsDigit(s[Len(TimePrefix) + 1])
       /\ s[Len(s)] = "Z"
    THEN <<DigitVal(s[Len(TimePrefix) + 1])>>
    ELSE <<>>

IsStrings(v) == v.t = "arr" /\ \A k \in 1..Len(v.a) : v.a[k].t = "str"

StringsOf(v) == [k \in 1..Len(v.a) |-> v.a[k].s]

\* a field of type String, Vec<String> or serde_json::Value, wellTyped
\* telling whether the value under k has the field's type
Required(o, k, wellTyped) == KeyCount(o, k) = 1 /\ wellTyped

\* a field of type Option<T>
Optional(o, k, wellTyped) ==
    \/ ~HasKey(o, k)
    \/ KeyCount(o, k) = 1 /\ (Get(o, k).t = "null" \/ wellTyped)

IsNone(o, k) == ~HasKey(o, k) \/ Get(o, k).t = "null"

IsString(v) == v.t = "str"
IsAny(v) == TRUE
IsTime(v) == v.t = "str" /\ ParseTime(v.s) # <<>>

MessageOf(v) ==
    IF v.t # "obj" \/ KeyCount(v.o, K_type) # 1 \/ Get(v.o, K_type).t # "str"
       \/ VariantOfTag(Get(v.o, K_type).s) = <<>>
    THEN NoMessage
    ELSE LET o == v.o
             ty == VariantOfTag(Get(o, K_type).s)[1]
         IN  CASE ty = "State" ->
                    IF Required(o, K_value, IsAny(Get(o, K_value)))
                    THEN Decoded(StateMsg(Canon(Get(o, K_value))))
                    ELSE NoMessage
               [] ty = "Schema" ->
                    IF /\ Required(o, K_stream, IsString(Get(o, K_stream)))
                       /\ Required(o, K_schema, IsAny(Get(o, K_schema)))
                       /\ Required(o, K_key_properties,
                                   IsStrings(Get(o, K_key_properties)))
                       /\ Optional(o, K_bookmark_properties,
                                   IsStrings(Get(o, K_bookmark_properties)))
                    THEN Decoded(SchemaMsg(
                             Get(o, K_stream).s,
                             Canon(Get(o, K_schema)),
                             StringsOf(Get(o, K_key_properties)),
                             IF IsNone(o, K_bookmark_properties) THEN <<>>
                             ELSE <<StringsOf(Get(o, K_bookmark_properties))>>))
                    ELSE NoMessage
               [] ty = "Record" ->
                    IF /\ Required(o, K_stream, IsString(Get(o, K_stream)))
                       /\ Required(o, K_record, IsAny(Get(o, K_record)))
                       /\ Optional(o, K_version, IsString(Get(o, K_version)))
                       /\ Optional(o, K_time_extracted,
                                   IsTime(Get(o, K_time_extracted)))
                    THEN Decoded(RecordMsg(
                             Get(o, K_stream).s,
                             Canon(Get(o, K_record)),
                             IF IsNone(o, K_version) THEN <<>>
                             ELSE <<Get(o, K_version).s>>,
                             IF IsNone(o, K_time_extracted) THEN <<>>
                             ELSE ParseTime(Get(o, K_time_extracted).s)))
                    ELSE NoMessage

(***************************************************************************)
(* serde_json's StreamDeserializer<_, Message> (target.rs:133): one call   *)
(* of next() on byte string b from index i.                                *)
(*   [end |-> TRUE]                          only whitespace is left       *)
(*   [end |-> FALSE, ok |-> FALSE]           the next value does not decode*)
(*   [end |-> FALSE, ok |-> TRUE, m, next]   a message, and where it ends  *)
(***************************************************************************)
StreamNext(b, i) ==
    LET j == SkipWs(b, i)
    IN  IF At(b, j) = EOF THEN [end |-> TRUE]
        ELSE LET r == ParseValue(b, j)
                 d == IF r.ok THEN MessageOf(r.v) ELSE NoMessage
             IN  IF d.ok
                 THEN [end |-> FALSE, ok |-> TRUE, m |-> d.m, next |-> r.next]
                 ELSE [end |-> FALSE, ok |-> FALSE]

(***************************************************************************)
(* JSON Schema, draft 4, as the jsonschema crate compiles and applies it   *)
(* (target.rs:44-69), for the keywords type, properties, required and      *)
(* minimum.  Other keywords are annotations.                               *)
(***************************************************************************)
S_properties == <<"p", "r", "o", "p", "e", "r", "t", "i", "e", "s">>
S_required == <<"r", "e", "q", "u", "i", "r", "e", "d">>
S_minimum == <<"m", "i", "n", "i", "m", "u", "m">>
S_object == <<"o", "b", "j", "e", "c", "t">>
S_integer == <<"i", "n", "t", "e", "g", "e", "r">>
S_string == <<"s", "t", "r", "i", "n", "g">>
S_null == <<"n", "u", "l", "l">>
S_id == <<"i", "d">>
S_name == <<"n", "a", "m", "e">>

TypeNames == {S_object, S_integer, S_string, S_null}

\* JSONSchema::with_draft (target.rs:44-55): does the document compile?
RECURSIVE Compiles(_)
Compiles(doc) ==
    /\ doc.t = "obj"
    /\ \A i \in 1..Len(doc.o) :
         LET k == doc.o[i][1]
             a == doc.o[i][2]
         IN  CASE k = K_type -> a.t = "str" /\ a.s \in TypeNames
               [] k = S_minimum -> a.t = "int"
               [] k = S_required -> IsStrings(a)
               [] k = S_properties ->
                    a.t = "obj" /\ \A j \in 1..Len(a.o) : Compiles(a.o[j][2])
               [] OTHER -> TRUE

HasType(v, name) ==
    CASE name = S_object -> v.t = "obj"
      [] name = S_integer -> v.t = "int"
      [] name = S_string -> v.t = "str"
      [] name = S_null -> v.t = "null"

\* The violated constraints of value v under compiled document doc, each a
\* path of keywords and property names, in the order the validator reports
\* them; the first is the one JSONSchema::validate describes.
RECURSIVE Violations(_, _)
RECURSIVE KeywordViolations(_, _, _)
RECURSIVE PropertyViolations(_, _, _)
Violations(doc, v) == KeywordViolations(doc, v, 1)

KeywordViolations(doc, v, i) ==
    IF i > Len(doc.o) THEN <<>>
    ELSE LET k == doc.o[i][1]
             a == doc.o[i][2]
             here ==
                 CASE k = K_type ->
                        IF HasType(v, a.s) THEN <<>> ELSE <<<<k>>>>
                   [] k = S_minimum ->
                        IF v.t = "int" /\ v.n < a.n THEN <<<<k>>>> ELSE <<>>
                   [] k = S_required ->
                        IF v.t = "obj"
                           /\ \E j \in 1..Len(a.a) : ~HasKey(v.o, a.a[j].s)
                        THEN <<<<k>>>> ELSE <<>>
                   [] k = S_properties ->
                        IF v.t = "obj" THEN PropertyViolations(a.o, v, 1)
                        ELSE <<>>
                   [] OTHER -> <<>>
         IN  here \o KeywordViolations(doc, v, i + 1)

PropertyViolations(props, v, j) ==
    IF j > Len(props) THEN <<>>
    ELSE LET name == props[j][1]
             sub == IF HasKey(v.o, name)
                    THEN Violations(props[j][2], Get(v.o, name))
                    ELSE <<>>
         IN  [n \in 1..Len(sub) |-> <<S_properties, name>> \o sub[n]]
             \o PropertyViolations(props, v, j + 1)

\* JSONSchema::is_valid (target.rs:57-59)
IsValid(doc, v) == Violations(doc, v) = <<>>

(***************************************************************************)
(* Results and errors (lib.rs:12-46).                                      *)
(***************************************************************************)
Ok == [ok |-> TRUE]
Err(kind, detail) == [ok |-> FALSE, err |-> kind, detail |-> detail]

\* JSONSchema::validate (target.rs:61-69)
Validate(doc, v) ==
    IF Violations(doc, v) = <<>> THEN Ok
    ELSE Err("JSONSchemaValidationError", Head(Violations(doc, v)))

(***************************************************************************)
(* The target's Context (target.rs:78-110): schemas maps a stream name to  *)
(* its compiled validator, which the model holds as the document it was    *)
(* compiled from.                                                          *)
(***************************************************************************)
\* Context::has_schema (target.rs:84-86)
HasSchema(ctx, schema) == schema.stream \in DOMAIN ctx

\* insert_schema storing the document before it is known to compile
InsertSchemaUncompiled(ctx, schema) ==
    <<IF Compiles(schema.schema) THEN Ok
      ELSE Err("JSONSchemaCompilationError", <<>>),
      [s \in DOMAIN ctx \cup {schema.stream} |->
         IF s = schema.stream THEN schema.schema ELSE ctx[s]]>>

\* Context::insert_schema (target.rs:88-96): <<result, context after>>
InsertSchema(ctx, schema) ==
    IF Compiles(schema.schema)
    THEN <<Ok,
           [s \in DOMAIN ctx \cup {schema.stream} |->
              IF s = schema.stream THEN schema.schema ELSE ctx[s]]>>
    ELSE <<Err("JSONSchemaCompilationError", <<>>), ctx>>

\* validate_record dropping the error that validate returns
ValidateRecordUnpropagated(ctx, record) ==
    IF record.stream \notin DOMAIN ctx
    THEN Err("JSONSchemaNotRegistered", record.stream)
    ELSE Ok

\* validate_record letting a record of an unknown stream through
ValidateRecordUngated(ctx, record) ==
    IF record.stream \notin DOMAIN ctx THEN Ok
    ELSE Validate(ctx[record.stream], record.record)

\* Context::validate_record (target.rs:98-109)
ValidateRecord(ctx, record) ==
    IF record.stream \notin DOMAIN ctx
    THEN Err("JSONSchemaNotRegistered", record.stream)
    ELSE IF ~IsValid(ctx[record.stream], record.record)
         THEN Validate(ctx[record.stream], record.record)
         ELSE Ok

\* process_schema without the has_schema test: the last schema wins
ProcessSchemaOverwriting(ctx, schema) == InsertSchema(ctx, schema)

\* Target::process_schema, the default body (target.rs:119-125)
ProcessSchema(ctx, schema) ==
    IF ~HasSchema(ctx, schema) THEN InsertSchema(ctx, schema)
    ELSE <<Ok, ctx>>

(***************************************************************************)
(* The writer (tap.rs:90-226).  InnerWriter is an                          *)
(* Arc<Mutex<BufWriter<W>>>; w = [buf, sink] is the BufWriter's buffer and *)
(* the bytes W has received.  W is an in-memory buffer (with_buffer,       *)
(* to_buffer): its writes do not fail.                                     *)
(***************************************************************************)
\* BufWriter::flush
BufFlush(w) == [buf |-> <<>>, sink |-> w.sink \o w.buf]

\* BufWriter::write making room by dropping what it holds
BufWriteLossy(w, bytes) ==
    IF Len(w.buf) + Len(bytes) > BufCap
    THEN [buf |-> bytes, sink |-> w.sink]
    ELSE [buf |-> w.buf \o bytes, sink |-> w.sink]

\* BufWriter::write: make room, then buffer the bytes, or pass them on
\* when they would fill the buffer on their own
BufWrite(w, bytes) ==
    LET w1 == IF Len(w.buf) + Len(bytes) > BufCap THEN BufFlush(w) ELSE w
    IN  IF Len(bytes) >= BufCap
        THEN [buf |-> w1.buf, sink |-> w1.sink \o bytes]
        ELSE [buf |-> w1.buf \o bytes, sink |-> w1.sink]

\* <InnerWriter as Write>::write (tap.rs:119-122): one write under the lock
InnerWrite(w, bytes) == BufWrite(w, bytes)

\* <InnerWriter as Write>::flush (tap.rs:124-127)
InnerFlush(w) == BufFlush(w)

\* the serializer's writes, one after the other.  (The recursion is by
\* halves and tests w1, which always passes, so that TLC evaluates each
\* intermediate state once and its stack stays shallow.)
RECURSIVE WriteAll(_, _)
WriteAll(w, chunks) ==
    LET n == Len(chunks)
        h == n \div 2
    IN  CASE n = 0 -> w
          [] n = 1 -> InnerWrite(w, chunks[1])
          [] OTHER ->
               LET w1 == WriteAll(w, SubSeq(chunks, 1, h))
               IN  IF Len(w1.buf) <= BufCap
                   THEN WriteAll(w1, SubSeq(chunks, h + 1, n))
                   ELSE w1

\* write_line writing nothing
WriteLineNothing(w) == w

\* MessageWriter::write_line (tap.rs:197-200)
WriteLine(w) == InnerWrite(w, <<NL>>)

\* MessageWriter::write_message (tap.rs:172-176), the serializer's writes
\* being given
WriteChunksAndLine(w, chunks) == WriteLine(WriteAll(w, chunks))

WriteMessage(w, m) == WriteChunksAndLine(w, SerChunks(m))

\* the strong count of the Arc: the writer's inner and ser (tap.rs:165-169)
\* and the other clones alive
StrongCount(live, n) == (IF live THEN 2 ELSE 0) + n

\* into_inner taking the sink whatever the strong count
InnerIntoInnerUnchecked(w, n) == [ok |-> TRUE, sink |-> BufFlush(w).sink]

\* into_inner giving the sink back without the bytes still buffered
InnerIntoInnerUnflushed(w, n) ==
    IF n > 1
    THEN Err("OtherError",
             "Arc has strong ref count > 1, cannot take unwrap the inner value")
    ELSE [ok |-> TRUE, sink |-> w.sink]

\* InnerWriter::into_inner (tap.rs:99-109), once MessageWriter::into_inner
\* has dropped the serializer's handle (tap.rs:208-215): n is the strong
\* count that try_unwrap sees
InnerIntoInner(w, n) ==
    IF n > 1
    THEN Err("OtherError",
             "Arc has strong ref count > 1, cannot take unwrap the inner value")
    ELSE [ok |-> TRUE, sink |-> BufFlush(w).sink]

(***************************************************************************)
(* The tap's Context (tap.rs:27-60): four optional paths, each under the   *)
(* name of its option.  Option names and paths are strings.                *)
(***************************************************************************)
\* the options in the order sync passes them on (external.rs:78-92)
OptionOrder == <<"config", "catalog", "state", "properties">>

OptionNames == {OptionOrder[i] : i \in 1..Len(OptionOrder)}

\* #[derive(Default)] Context (tap.rs:27-33): every path is None
DefaultContext == [k \in OptionNames |-> <<>>]

Some(x) == [ok |-> TRUE, value |-> x]

\* get_option telling an unset option from an unknown one the wrong way
GetOptionConfused(ctx, option) ==
    IF option \notin OptionNames THEN Err("OptionNotSet", option)
    ELSE IF ctx[option] = <<>> THEN Err("InvalidOption", option)
    ELSE Some(ctx[option][1])

\* get_option giving the empty path for an option that is not set
GetOptionUnchecked(ctx, option) ==
    IF option \notin OptionNames THEN Err("InvalidOption", option)
    ELSE Some(IF ctx[option] = <<>> THEN "" ELSE ctx[option][1])

\* Context::get_option (tap.rs:36-45)
GetOption(ctx, option) ==
    IF option \notin OptionNames THEN Err("InvalidOption", option)
    ELSE IF ctx[option] = <<>> THEN Err("OptionNotSet", option)
    ELSE Some(ctx[option][1])

\* Context::set_option (tap.rs:47-59): <<result, context after>>; the
\* value of the result is the path the option had before
SetOption(ctx, option, value) ==
    IF option \notin OptionNames THEN <<Err("InvalidOption", option), ctx>>
    ELSE <<Some(ctx[option]), [ctx EXCEPT ![option] = <<value>>]>>

(***************************************************************************)
(* The strict conversions of a Message (lib.rs:134-180).                   *)
(***************************************************************************)
\* Message::ty (lib.rs:134-140)
Ty(m) ==
    CASE m.type = "State" -> "status"
      [] m.type = "Schema" -> "schema"
      [] m.type = "Record" -> "record"

\* the name each TryFrom impl gives its own variant (lib.rs:155, 166, 177)
TargetName(K) ==
    CASE K = "State" -> "state"
      [] K = "Schema" -> "schema"
      [] K = "Record" -> "record"

\* Error::InvalidConversion (lib.rs:29-30): its message reads
\* "found ({0}) expected ({1})"
InvalidConversion(first, second) ==
    Err("InvalidConversion", [found |-> first, expected |-> second])

\* the State, Schema or Record a Message wraps
Payload(m) == [f \in DOMAIN m \ {"type"} |-> m[f]]

\* <K as TryFrom<Message>>::try_from (lib.rs:149-180)
TryFrom(K, m) ==
    IF m.type = K THEN Some(Payload(m))
    ELSE InvalidConversion(TargetName(K), Ty(m))

(***************************************************************************)
(* ExternalTap (external.rs:29-134).  A child's exit status is <<>> (no    *)
(* exit code: ended by a signal) or <<code>>; it is a success iff the code *)
(* is 0.  What the child wrote to stdout and stderr are byte strings.      *)
(***************************************************************************)
Success(exit) == exit = <<0>>

CommandError(exit, detail) ==
    Err("CommandError", [code |-> exit, detail |-> detail])

\* Command::spawn failing (external.rs:53-54, 98-99)
SpawnFailureAsCommand == CommandError(<<>>, <<>>)

SpawnFailure == Err("ExecError", <<>>)

\* the arguments of discover (external.rs:50)
DiscoverArgs(config) == <<"--config", config, "--discover">>

\* the arguments of sync with --state put before --catalog
SyncArgsStateFirst(ctx) ==
    <<"--config", GetOption(ctx, "config").value>>
    \o (IF GetOption(ctx, "state").ok
        THEN <<"--state", GetOption(ctx, "state").value>> ELSE <<>>)
    \o (IF GetOption(ctx, "catalog").ok
        THEN <<"--catalog", GetOption(ctx, "catalog").value>> ELSE <<>>)
    \o (IF GetOption(ctx, "properties").ok
        THEN <<"--properties", GetOption(ctx, "properties").value>>
        ELSE <<>>)

\* the arguments of sync (external.rs:78-92), config being set
SyncArgs(ctx) ==
    <<"--config", GetOption(ctx, "config").value>>
    \o (IF GetOption(ctx, "catalog").ok
        THEN <<"--catalog", GetOption(ctx, "catalog").value>> ELSE <<>>)
    \o (IF GetOption(ctx, "state").ok
        THEN <<"--state", GetOption(ctx, "state").value>> ELSE <<>>)
    \o (IF GetOption(ctx, "properties").ok
        THEN <<"--properties", GetOption(ctx, "properties").value>>
        ELSE <<>>)

\* BufRead::lines (external.rs:115-117): the byte string cut after each
\* newline, the newlines left out; bytes after the last newline are a
\* line, no bytes after it are none.  (The model's bytes hold no "\r".)
Lines(b) ==
    LET nls == {i \in 1..Len(b) : b[i] = NL}
        nth(k) == CHOOSE i \in nls : Cardinality({j \in nls : j <= i}) = k
        n == Cardinality(nls)
        count == IF b # <<>> /\ b[Len(b)] # NL THEN n + 1 ELSE n
    IN  [k \in 1..count |->
           SubSeq(b, IF k = 1 THEN 1 ELSE nth(k - 1) + 1,
                     IF k <= n THEN nth(k) - 1 ELSE Len(b))]

\* the message of external.rs:120-122, as one item
NoStderr ==
    <<"The taps process exited with an error but didn't write any data to stderr">>

\* .lines().last().or_else(..) (external.rs:116-127)
LastError(stderr) ==
    IF Lines(stderr) = <<>> THEN NoStderr
    ELSE Lines(stderr)[Len(Lines(stderr))]

\* what sync returns once the child has exited (external.rs:114-132)
SyncOutcome(exit, stderr) ==
    IF ~Success(exit) THEN CommandError(exit, LastError(stderr)) ELSE Ok

\* serde_json::from_slice::<Value> (external.rs:59): one JSON value, with
\* nothing but whitespace around it
FromSlice(b) ==
    LET r == ParseValue(b, SkipWs(b, 1))
    IN  IF r.ok /\ At(b, SkipWs(b, r.next)) = EOF
        THEN Some(Canon(r.v))
        ELSE Err("DeserializationError", <<>>)

\* serde_json::to_string (external.rs:62)
ToJsonString(v) == Flatten(ValChunks(v))

K_streams == <<"s", "t", "r", "e", "a", "m", "s">>
K_tap_stream_id ==
    <<"t", "a", "p", "_", "s", "t", "r", "e", "a", "m", "_", "i", "d">>
K_table_name == <<"t", "a", "b", "l", "e", "_", "n", "a", "m", "e">>
K_metadata == <<"m", "e", "t", "a", "d", "a", "t", "a">>
K_breadcrumb == <<"b", "r", "e", "a", "d", "c", "r", "u", "m", "b">>

\* The derived Deserialize of Metadata, Stream and Catalog (tap.rs:7-25),
\* each struct being given as a JSON object.
IsMetadata(v) ==
    /\ v.t = "obj"
    /\ Required(v.o, K_metadata, IsAny(Get(v.o, K_metadata)))
    /\ Required(v.o, K_breadcrumb, IsStrings(Get(v.o, K_breadcrumb)))

IsMetadatas(v) == v.t = "arr" /\ \A k \in 1..Len(v.a) : IsMetadata(v.a[k])

IsStream(v) ==
    /\ v.t = "obj"
    /\ Required(v.o, K_stream, IsString(Get(v.o, K_stream)))
    /\ Required(v.o, K_tap_stream_id, IsString(Get(v.o, K_tap_stream_id)))
    /\ Required(v.o, K_schema, IsAny(Get(v.o, K_schema)))
    /\ Optional(v.o, K_table_name, IsString(Get(v.o, K_table_name)))
    /\ Optional(v.o, K_metadata, IsMetadatas(Get(v.o, K_metadata)))

IsStreams(v) == v.t = "arr" /\ \A k \in 1..Len(v.a) : IsStream(v.a[k])

IsCatalog(v) ==
    v.t = "obj" /\ Required(v.o, K_streams, IsStreams(Get(v.o, K_streams)))

OptionOf(o, k) == IF IsNone(o, k) THEN <<>> ELSE <<Get(o, k)>>

StreamOf(v) ==
    [stream |-> Get(v.o, K_stream).s,
     tap_stream_id |-> Get(v.o, K_tap_stream_id).s,
     schema |-> Get(v.o, K_schema),
     table_name |-> OptionOf(v.o, K_table_name),
     metadata |-> OptionOf(v.o, K_metadata)]

CatalogOf(v) ==
    [streams |-> [k \in 1..Len(Get(v.o, K_streams).a) |->
                     StreamOf(Get(v.o, K_streams).a[k])]]

\* serde_json::from_slice::<Catalog> (external.rs:66)
CatalogFromSlice(b) ==
    IF FromSlice(b).ok /\ IsCatalog(FromSlice(b).value)
    THEN Some(CatalogOf(FromSlice(b).value))
    ELSE Err("DeserializationError", <<>>)

\* what discover returns once the child has exited (external.rs:56-68)
DiscoverOutcome(exit, stdout, stderr) ==
    IF ~Success(exit)
    THEN IF FromSlice(stderr).ok
         THEN CommandError(exit, ToJsonString(FromSlice(stderr).value))
         ELSE FromSlice(stderr)
    ELSE CatalogFromSlice(stdout)

(***************************************************************************)
(* The messages and raw lines of the model.                                *)
(***************************************************************************)
StreamA == <<"a">>
StreamB == <<"b">>

\* the schema of the crate's test (target.rs:158-175), its annotations left out
PersonDoc ==
    JObj(<< <<S_properties,
              JObj(<< <<S_id, JObj(<< <<S_minimum, JInt(1)>>,
                                      <<K_type, JStr(S_integer)>> >>)>>,
                      <<S_name, JObj(<< <<K_type, JStr(S_string)>> >>)>> >>)>>,
            <<S_required, JArr(<<JStr(S_id), JStr(S_name)>>)>>,
            <<K_type, JStr(S_object)>> >>)

AnyDoc == JObj(<<>>)

\* not a schema: type must name a type
BadDoc == JObj(<< <<K_type, JInt(1)>> >>)

Person(id, name) == JObj(<< <<S_id, JInt(id)>>, <<S_name, JStr(name)>> >>)

Messages ==
    { SchemaMsg(StreamA, PersonDoc, <<S_id>>, <<>>),
      SchemaMsg(StreamA, AnyDoc, <<>>, << <<S_id>> >>),
      SchemaMsg(StreamA, BadDoc, <<>>, <<>>),
      NewRecord(StreamA, Person(1, <<"V">>)),
      RecordMsg(StreamA, Person(0, <<"x", NL, QUOTE>>), << <<"v", "1">> >>, <<5>>),
      NewRecord(StreamB, JNull),
      StateMsg(JStr(<<BSLASH, "n", NL>>)),
      StateMsg(JInt(-12)) }

\* bytes written to the writer as they are (Write::write, tap.rs:218-221),
\* as sync does with the output of an external tap (external.rs:110)
RawLines ==
    { <<"{", QUOTE, "t", "y", "p", "e", QUOTE, ":", "}", NL>>,
      <<" ", "{", QUOTE, "v", "a", "l", "u", "e", QUOTE, ":", "[", "]", ",",
        " ", QUOTE, "t", "y", "p", "e", QUOTE, ":",
        QUOTE, "S", "T", "A", "T", "E", QUOTE, "}">> }

\* SerChunks and Json of the model's messages, tabulated
ChunksOf == [m \in Messages |-> SerChunks(m)]
JsonOf == [m \in Messages |-> Json(m)]

(***************************************************************************)
(* State.                                                                  *)
(***************************************************************************)
VARIABLES
    wlive,     \* the MessageWriter exists (not yet consumed or dropped)
    clones,    \* InnerWriter clones alive beside the writer's own
    buf,       \* the BufWriter's buffer
    sink,      \* the bytes W holds
    log,       \* the write calls made so far, in call order
    reclaim,   \* <<>>, or <<the result of into_inner>>
    rpc,       \* process_reader: "idle", "reading" or "done"
    input,     \* the bytes process_reader reads
    pos,       \* index of the next unread byte of input
    schemas,   \* the Context's registry
    handed,    \* the records handed to process_record, in order
    states,    \* the states handed to process_state, in order
    seen,      \* the messages decoded so far, each with its outcome
    result,    \* <<>>, or <<the result of process_reader>>
    call,      \* per handle: <<>>, or <<the message its write_message writes>>
    written,   \* per handle: the serializer's writes its call has made
    calls,     \* per handle: the write_message calls it has completed
    owner,     \* per byte written by a handle, in write order: <<handle, call>>
    running,   \* the handle that took the last step (0: none yet)
    switches,  \* the context switches so far
    options,   \* the tap's Context
    setlog,    \* the set_option calls made so far: <<option, value>>
    last,      \* <<>>, or <<the last call on a Context or a Message>>
    epc,       \* ExternalTap: "idle", "copy", "wait" or "done"
    cmd,       \* <<>>, or <<the command line of the child spawned>>
    child,     \* the child process
    pipe,      \* the bytes in the child's stdout pipe, not yet read
    emitted,   \* the bytes the child has written to stdout so far
    eresult    \* <<>>, or <<the result of discover or sync>>

writerVars == <<wlive, clones, buf, sink, log, reclaim>>
readerVars == <<rpc, input, pos, schemas, handed, states, seen, result>>
threadVars == <<call, written, calls, owner, running, switches>>
contextVars == <<options, setlog, last>>
adapterVars == <<epc, cmd, child, pipe, emitted, eresult>>
callVars == <<contextVars, adapterVars>>
vars == <<writerVars, readerVars, threadVars, callVars>>

Handles == 1..NumHandles

W == [buf |-> buf, sink |-> sink]

EmptyContext == [s \in {} |-> AnyDoc]

\* no child process yet
NoChild == [started |-> FALSE]

Init ==
    /\ wlive = TRUE /\ clones = 0
    /\ buf = <<>> /\ sink = <<>>
    /\ log = <<>> /\ reclaim = <<>>
    /\ rpc = "idle" /\ input = <<>> /\ pos = 1
    /\ schemas = EmptyContext
    /\ handed = <<>> /\ states = <<>> /\ seen = <<>>
    /\ result = <<>>
    /\ call = [h \in Handles |-> <<>>]
    /\ written = [h \in Handles |-> 0]
    /\ calls = [h \in Handles |-> 0]
    /\ owner = <<>>
    /\ running = 0 /\ switches = 0
    /\ options = DefaultContext /\ setlog = <<>> /\ last = <<>>
    /\ epc = "idle" /\ cmd = <<>> /\ child = NoChild
    /\ pipe = <<>> /\ emitted = <<>> /\ eresult = <<>>

(***************************************************************************)
(* The writer's operations.  They stop once the sink is being read.        *)
(***************************************************************************)
\* MessageWriter::write_message (tap.rs:172-176); write_record, write_state
\* and write_schema (tap.rs:178-190) are this call on the wrapped message
write_message(m) ==
    /\ rpc = "idle" /\ wlive /\ Len(log) < MaxWrites
    /\ \E w \in {WriteChunksAndLine(W, ChunksOf[m])} :
         buf' = w.buf /\ sink' = w.sink
    /\ log' = Append(log, [kind |-> "msg", m |-> m, bytes |-> <<>>])
    /\ UNCHANGED <<wlive, clones, reclaim, readerVars, threadVars, callVars>>

\* <MessageWriter as Write>::write (tap.rs:218-221)
write(bytes) ==
    /\ rpc = "idle" /\ wlive /\ Len(log) < MaxWrites
    /\ LET w == InnerWrite(W, bytes)
       IN  buf' = w.buf /\ sink' = w.sink
    /\ log' = Append(log, [kind |-> "raw", m |-> <<>>, bytes |-> bytes])
    /\ UNCHANGED <<wlive, clones, reclaim, readerVars, threadVars, callVars>>

\* MessageWriter::flush (tap.rs:192-195)
flush ==
    /\ rpc = "idle" /\ wlive /\ buf # <<>>
    /\ LET w == InnerFlush(W)
       IN  buf' = w.buf /\ sink' = w.sink
    /\ UNCHANGED <<wlive, clones, log, reclaim, readerVars, threadVars, callVars>>

\* <InnerWriter as Clone>::clone (tap.rs:112-116)
clone ==
    /\ rpc = "idle" /\ wlive /\ clones < MaxClones
    /\ clones' = clones + 1
    /\ UNCHANGED <<wlive, buf, sink, log, reclaim, readerVars, threadVars, callVars>>

\* the BufWriter dropped with what it holds
AfterReleaseUnflushed(live, n) ==
    IF StrongCount(live, n) = 0 THEN [buf |-> <<>>, sink |-> sink] ELSE W

\* The last handle gone, the BufWriter is dropped, and writes out its buffer.
AfterRelease(live, n) ==
    IF StrongCount(live, n) = 0 THEN BufFlush(W) ELSE W

\* a clone is dropped
drop_clone ==
    /\ rpc = "idle" /\ clones > 0
    /\ clones' = clones - 1
    /\ LET w == AfterRelease(wlive, clones - 1)
       IN  buf' = w.buf /\ sink' = w.sink
    /\ UNCHANGED <<wlive, log, reclaim, readerVars, threadVars, callVars>>

\* the MessageWriter is dropped
drop_writer ==
    /\ rpc = "idle" /\ wlive
    /\ wlive' = FALSE
    /\ LET w == AfterRelease(FALSE, clones)
       IN  buf' = w.buf /\ sink' = w.sink
    /\ UNCHANGED <<clones, log, reclaim, readerVars, threadVars, callVars>>

\* MessageWriter::into_inner (tap.rs:208-215): the serializer's handle is
\* dropped, then InnerWriter::into_inner takes the Arc apart or gives up
\* its own handle
into_inner ==
    /\ rpc = "idle" /\ wlive
    /\ wlive' = FALSE
    /\ LET r == InnerIntoInner(W, StrongCount(TRUE, clones) - 1)
           w == IF r.ok THEN BufFlush(W) ELSE AfterRelease(FALSE, clones)
       IN  /\ reclaim' = <<r>>
           /\ buf' = w.buf /\ sink' = w.sink
    /\ UNCHANGED <<clones, log, readerVars, threadVars, callVars>>

(***************************************************************************)
(* Target::process_reader (target.rs:127-150) on the bytes of the sink,    *)
(* once every handle of the writer is gone.  The record handler is the     *)
(* application's: it returns Ok or an error of its own.                    *)
(***************************************************************************)
process_reader ==
    /\ rpc = "idle" /\ StrongCount(wlive, clones) = 0
    /\ rpc' = "reading" /\ input' = sink /\ pos' = 1
    /\ UNCHANGED <<writerVars, schemas, handed, states, seen, result,
                   threadVars, callVars>>

HandlerResults == {Ok, Err("HandlerError", <<>>)}

\* the closure handing each message to the front of what was handed before
DispatchNewestFirst(m, h) ==
    CASE m.type = "Schema" ->
           LET r == ProcessSchema(schemas, m)
           IN  [res |-> r[1], schemas |-> r[2],
                handed |-> handed, states |-> states]
      [] m.type = "Record" ->
           LET v == ValidateRecord(schemas, m)
           IN  IF ~v.ok
               THEN [res |-> v, schemas |-> schemas,
                     handed |-> handed, states |-> states]
               ELSE [res |-> h, schemas |-> schemas,
                     handed |-> <<m>> \o handed, states |-> states]
      [] m.type = "State" ->
           [res |-> Ok, schemas |-> schemas,
            handed |-> handed, states |-> <<m>> \o states]

\* the closure handing a record over without validating it
DispatchUnvalidated(m, h) ==
    CASE m.type = "Schema" ->
           LET r == ProcessSchema(schemas, m)
           IN  [res |-> r[1], schemas |-> r[2],
                handed |-> handed, states |-> states]
      [] m.type = "Record" ->
           [res |-> h, schemas |-> schemas,
            handed |-> Append(handed, m), states |-> states]
      [] m.type = "State" ->
           [res |-> Ok, schemas |-> schemas,
            handed |-> handed, states |-> Append(states, m)]

\* what the closure of target.rs:136-146 does with message m:
\* [res, schemas, handed, states] after it, for handler result h
Dispatch(m, h) ==
    CASE m.type = "Schema" ->
           LET r == ProcessSchema(schemas, m)
           IN  [res |-> r[1], schemas |-> r[2],
                handed |-> handed, states |-> states]
      [] m.type = "Record" ->
           LET v == ValidateRecord(schemas, m)
           IN  IF ~v.ok
               THEN [res |-> v, schemas |-> schemas,
                     handed |-> handed, states |-> states]
               ELSE [res |-> h, schemas |-> schemas,
                     handed |-> Append(handed, m), states |-> states]
      [] m.type = "State" ->
           [res |-> Ok, schemas |-> schemas,
            handed |-> handed, states |-> Append(states, m)]

\* the iterator driven to its end whatever the closure returns
next_message_lenient ==
    /\ rpc = "reading"
    /\ \E n \in {StreamNext(input, pos)} :
         IF n.end
         THEN /\ rpc' = "done" /\ result' = <<Ok>>
              /\ UNCHANGED <<pos, schemas, handed, states, seen>>
         ELSE IF ~n.ok
         THEN /\ rpc' = "done"
              /\ result' = <<Err("DeserializationError", <<>>)>>
              /\ UNCHANGED <<pos, schemas, handed, states, seen>>
         ELSE \E d \in {Dispatch(n.m, h) : h \in HandlerResults} :
                /\ schemas' = d.schemas
                /\ handed' = d.handed
                /\ states' = d.states
                /\ seen' = Append(seen, [m |-> n.m, res |-> d.res])
                /\ pos' = n.next
                /\ UNCHANGED <<rpc, result>>
    /\ UNCHANGED <<writerVars, input, threadVars, callVars>>

\* one turn of the iterator that collect drives (target.rs:135-147): the
\* stream ends, or yields an error, or a message that is dispatched; the
\* first error ends the call
next_message ==
    /\ rpc = "reading"
    /\ \E n \in {StreamNext(input, pos)} :
         IF n.end
         THEN /\ rpc' = "done" /\ result' = <<Ok>>
              /\ UNCHANGED <<pos, schemas, handed, states, seen>>
         ELSE IF ~n.ok
         THEN /\ rpc' = "done"
              /\ result' = <<Err("DeserializationError", <<>>)>>
              /\ UNCHANGED <<pos, schemas, handed, states, seen>>
         ELSE \E d \in {Dispatch(n.m, h) : h \in HandlerResults} :
                /\ schemas' = d.schemas
                /\ handed' = d.handed
                /\ states' = d.states
                /\ seen' = Append(seen, [m |-> n.m, res |-> d.res])
                /\ IF d.res.ok
                   THEN /\ pos' = n.next
                        /\ UNCHANGED <<rpc, result>>
                   ELSE /\ rpc' = "done" /\ result' = <<d.res>>
                        /\ UNCHANGED pos
    /\ UNCHANGED <<writerVars, input, threadVars, callVars>>

Next ==
    \/ \E m \in Messages : write_message(m)
    \/ \E bytes \in RawLines : write(bytes)
    \/ flush
    \/ clone
    \/ drop_clone
    \/ drop_writer
    \/ into_inner
    \/ process_reader
    \/ next_message

Spec == Init /\ [][Next]_vars

(***************************************************************************)
(* Concurrent write_message calls.  Each handle has a serializer of its    *)
(* own over a clone of the one InnerWriter (tap.rs:165-169), so that all   *)
(* share the Mutex and the BufWriter.  A call is the serializer's writes,  *)
(* one after the other, then write_line (tap.rs:172-176); the lock is      *)
(* taken and released inside each write (tap.rs:119-122), which is a step  *)
(* here, and between two steps of a call another handle may run.           *)
(***************************************************************************)
\* the messages the handles write
ThreadMessages == {StateMsg(JInt(-12)), NewRecord(StreamB, JNull)}

\* handle h takes a step: a context switch when another handle ran last
Scheduled(h) ==
    IF running \in {0, h}
    THEN /\ switches' = switches
         /\ running' = h
    ELSE /\ switches < MaxSwitches
         /\ switches' = switches + 1
         /\ running' = h

OwnedBy(h, bytes) == [i \in 1..Len(bytes) |-> <<h, calls[h] + 1>>]

\* handle h enters write_message(m) (tap.rs:172)
begin_write_message(h, m) ==
    /\ call[h] = <<>> /\ calls[h] < MaxCalls
    /\ Scheduled(h)
    /\ call' = [call EXCEPT ![h] = <<m>>]
    /\ written' = [written EXCEPT ![h] = 0]
    /\ UNCHANGED <<calls, owner, writerVars, readerVars,
                   callVars>>

\* one write of the serializer of handle h (tap.rs:173), under the lock
\* for the time of this write (tap.rs:119-122)
serialize_write(h) ==
    /\ call[h] # <<>> /\ written[h] < Len(ChunksOf[call[h][1]])
    /\ Scheduled(h)
    /\ LET bytes == ChunksOf[call[h][1]][written[h] + 1]
           w == InnerWrite(W, bytes)
       IN  /\ buf' = w.buf /\ sink' = w.sink
           /\ owner' = owner \o OwnedBy(h, bytes)
    /\ written' = [written EXCEPT ![h] = written[h] + 1]
    /\ UNCHANGED <<call, calls, wlive, clones, log, reclaim, readerVars,
                   callVars>>

\* write_line of handle h (tap.rs:174, 197-200), under the lock for the
\* time of this write; the call returns
write_line(h) ==
    /\ call[h] # <<>> /\ written[h] = Len(ChunksOf[call[h][1]])
    /\ Scheduled(h)
    /\ LET w == WriteLine(W)
       IN  /\ buf' = w.buf /\ sink' = w.sink
           /\ owner' = owner \o OwnedBy(h, <<NL>>)
    /\ call' = [call EXCEPT ![h] = <<>>]
    /\ calls' = [calls EXCEPT ![h] = calls[h] + 1]
    /\ UNCHANGED <<written, wlive, clones, log, reclaim, readerVars,
                   callVars>>

NextThreads ==
    \/ \E h \in Handles : \E m \in ThreadMessages : begin_write_message(h, m)
    \/ \E h \in Handles : serialize_write(h)
    \/ \E h \in Handles : write_line(h)

SpecThreads == Init /\ [][NextThreads]_vars

(***************************************************************************)
(* Calls on values: the tap Context's options and the strict conversions.  *)
(***************************************************************************)
\* option names, the four of the Context and others
Options == OptionNames \cup {"Config"}

Paths == {"/a.json", "/b.json"}

\* Context::set_option (tap.rs:47-59)
set_option(option, value) ==
    /\ Len(setlog) < MaxSets
    /\ options' = SetOption(options, option, value)[2]
    /\ setlog' = Append(setlog, <<option, value>>)
    /\ last' = <<[call |-> "set_option", option |-> option, value |-> value,
                  res |-> SetOption(options, option, value)[1]]>>
    /\ UNCHANGED <<writerVars, readerVars, threadVars, adapterVars>>

\* Context::get_option (tap.rs:36-45)
get_option(option) ==
    /\ last' = <<[call |-> "get_option", option |-> option,
                  res |-> GetOption(options, option)]>>
    /\ UNCHANGED <<options, setlog, writerVars, readerVars, threadVars,
                   adapterVars>>

\* K::try_from(m) (lib.rs:149-180)
try_from(K, m) ==
    /\ last' = <<[call |-> "try_from", K |-> K, m |-> m,
                  res |-> TryFrom(K, m)]>>
    /\ UNCHANGED <<options, setlog, writerVars, readerVars, threadVars,
                   adapterVars>>

NextCalls ==
    \/ \E option \in Options : \E value \in Paths : set_option(option, value)
    \/ \E option \in Options : get_option(option)
    \/ \E K \in Variants : \E m \in Messages : try_from(K, m)

SpecCalls == Init /\ [][NextCalls]_vars

(***************************************************************************)
(* The external tap: one call of discover or of sync on a Context whose    *)
(* options were set beforehand, against a child process that runs beside   *)
(* the call.  The child is given by what it will do: whether the program   *)
(* can be started, the bytes it writes to stdout (in writes of at most     *)
(* ChildChunk bytes, and it may exit before writing them all), what it     *)
(* has written to stderr when it exits, its exit status, and whether       *)
(* another process has inherited the write end of its stdout pipe.         *)
(* pipe holds the bytes written to stdout and not yet read; its write end  *)
(* is open while the child or the other process holds it.                  *)
(***************************************************************************)
ConfigPath == "/config.json"
CatalogPath == "/catalog.json"
StatePath == "/state.json"
PropertiesPath == "/properties.json"

PathOf ==
    [k \in OptionNames |->
       CASE k = "config" -> ConfigPath
         [] k = "catalog" -> CatalogPath
         [] k = "state" -> StatePath
         [] k = "properties" -> PropertiesPath]

\* the Contexts that set_option calls can build: each option unset or set
OptionMaps ==
    { [k \in OptionNames |-> IF k \in set THEN <<PathOf[k]>> ELSE <<>>] :
        set \in SUBSET OptionNames }

\* a Catalog of one stream, as a tap prints it
CatalogDoc ==
    <<"{", QUOTE>> \o K_streams \o <<QUOTE, ":", " ", "[", "{", QUOTE>>
    \o K_stream \o <<QUOTE, ":", QUOTE, "a", QUOTE, ",", QUOTE>>
    \o K_tap_stream_id \o <<QUOTE, ":", QUOTE, "a", QUOTE, ",", QUOTE>>
    \o K_schema \o <<QUOTE, ":", "{", "}", "}", "]", "}", NL>>

\* what a child writes to stdout in discovery mode
DiscoverStdouts == {CatalogDoc, <<"{", "}">>, <<"a", "u">>, <<>>}

\* what a child writes to stdout in sync mode
SyncStdouts ==
    { <<>>,
      <<"a", NL, " ", "{">>,
      JsonOf[StateMsg(JInt(-12))] \o <<NL>> }

\* what a child has written to stderr when it exits
Stderrs ==
    { <<>>,
      <<"c", NL, "a", "u", NL>>,
      <<"a", "u", NL, NL>>,
      <<"a", "u">>,
      <<QUOTE, "e", QUOTE>>,
      <<" ", "{", QUOTE, "e", QUOTE, " ", ":", " ", "1", "}", NL>> }

Exits == {<<0>>, <<1>>, <<>>}

Child(stdout, stderr, exit, held) ==
    [started |-> TRUE, todo |-> stdout, stderr |-> stderr, exit |-> exit,
     exited |-> FALSE, open |-> TRUE, held |-> held]

\* the write end of the child's stdout pipe is open
WriteEndOpen == child.started /\ (child.open \/ child.held)

Returned(op, res) == <<[op |-> op, res |-> res]>>

InitExternal ==
    /\ wlive = TRUE /\ clones = 0
    /\ buf = <<>> /\ sink = <<>>
    /\ log = <<>> /\ reclaim = <<>>
    /\ rpc = "idle" /\ input = <<>> /\ pos = 1
    /\ schemas = EmptyContext
    /\ handed = <<>> /\ states = <<>> /\ seen = <<>> /\ result = <<>>
    /\ call = [h \in Handles |-> <<>>]
    /\ written = [h \in Handles |-> 0]
    /\ calls = [h \in Handles |-> 0]
    /\ owner = 0 /\ running = 0 /\ switches = 0
    /\ options \in OptionMaps
    /\ setlog = <<>> /\ last = <<>>
    /\ epc = "idle" /\ cmd = <<>> /\ child = NoChild
    /\ pipe = <<>> /\ emitted = <<>> /\ eresult = <<>>

\* ExternalTap::discover (external.rs:46-69).  wait_with_output reads both
\* pipes to their ends and waits for the exit; the call is one step.
discover(starts, stdout, stderr, exit) ==
    /\ epc = "idle"
    /\ epc' = "done"
    /\ IF ~GetOption(options, "config").ok
       THEN /\ eresult' = Returned("discover", GetOption(options, "config"))
            /\ UNCHANGED <<cmd, child, emitted>>
       ELSE /\ cmd' = DiscoverArgs(GetOption(options, "config").value)
            /\ IF ~starts
               THEN /\ eresult' = Returned("discover", SpawnFailure)
                    /\ UNCHANGED <<child, emitted>>
               ELSE /\ child' = [Child(<<>>, stderr, exit, FALSE)
                                   EXCEPT !.exited = TRUE, !.open = FALSE]
                    /\ emitted' = stdout
                    /\ eresult' = Returned("discover",
                                       DiscoverOutcome(exit, stdout, stderr))
    /\ UNCHANGED <<pipe, writerVars, readerVars, threadVars, contextVars>>

\* ExternalTap::sync up to the spawn (external.rs:78-108), c being the
\* child that the program becomes when it can be started
sync_begin(starts, c) ==
    /\ epc = "idle"
    /\ IF ~GetOption(options, "config").ok
       THEN /\ eresult' = Returned("sync", GetOption(options, "config"))
            /\ epc' = "done"
            /\ UNCHANGED <<cmd, child>>
       ELSE /\ cmd' = SyncArgs(options)
            /\ IF ~starts
               THEN /\ eresult' = Returned("sync", SpawnFailure)
                    /\ epc' = "done"
                    /\ UNCHANGED child
               ELSE /\ child' = c
                    /\ epc' = "copy"
                    /\ UNCHANGED eresult
    /\ UNCHANGED <<pipe, emitted, writerVars, readerVars, threadVars,
                   contextVars>>

\* the child writes to stdout
child_write ==
    /\ child.started /\ ~child.exited /\ child.open /\ child.todo # <<>>
    /\ \E n \in {IF Len(child.todo) < ChildChunk
                 THEN Len(child.todo) ELSE ChildChunk} :
         /\ pipe' = pipe \o SubSeq(child.todo, 1, n)
         /\ emitted' = emitted \o SubSeq(child.todo, 1, n)
         /\ child' = [child EXCEPT
                        !.todo = SubSeq(child.todo, n + 1, Len(child.todo))]
    /\ UNCHANGED <<epc, cmd, eresult, writerVars, readerVars, threadVars,
                   contextVars>>

\* the child closes its stdout and runs on
child_close ==
    /\ child.started /\ ~child.exited /\ child.open
    /\ child' = [child EXCEPT !.open = FALSE]
    /\ UNCHANGED <<epc, cmd, pipe, emitted, eresult, writerVars, readerVars,
                   threadVars, contextVars>>

\* the child exits: its own descriptors are closed
child_exit ==
    /\ child.started /\ ~child.exited
    /\ child' = [child EXCEPT !.exited = TRUE, !.open = FALSE]
    /\ UNCHANGED <<epc, cmd, pipe, emitted, eresult, writerVars, readerVars,
                   threadVars, contextVars>>

\* the process that inherited the pipe's write end closes it
holder_close ==
    /\ child.started /\ child.held
    /\ child' = [child EXCEPT !.held = FALSE]
    /\ UNCHANGED <<epc, cmd, pipe, emitted, eresult, writerVars, readerVars,
                   threadVars, contextVars>>

\* std::io::copy (external.rs:110): one read of the pipe, and the bytes
\* read written to the MessageWriter (tap.rs:218-221); the read blocks on
\* an empty pipe whose write end is open, and the copy ends on an empty
\* pipe whose write end is closed
copy_read ==
    /\ epc = "copy"
    /\ IF pipe # <<>>
       THEN \E n \in {IF Len(pipe) < CopyBuf THEN Len(pipe) ELSE CopyBuf} :
              /\ LET w == InnerWrite(W, SubSeq(pipe, 1, n))
                 IN  buf' = w.buf /\ sink' = w.sink
              /\ pipe' = SubSeq(pipe, n + 1, Len(pipe))
              /\ UNCHANGED epc
       ELSE /\ ~WriteEndOpen
            /\ epc' = "wait"
            /\ UNCHANGED <<buf, sink, pipe>>
    /\ UNCHANGED <<wlive, clones, log, reclaim, cmd, child, emitted, eresult,
                   readerVars, threadVars, contextVars>>

\* sync returning as soon as the child has exited, the copy ended or not
sync_wait_eager ==
    /\ epc \in {"copy", "wait"} /\ child.exited
    /\ eresult' = Returned("sync", SyncOutcome(child.exit, child.stderr))
    /\ epc' = "done"
    /\ UNCHANGED <<cmd, child, pipe, emitted, writerVars, readerVars,
                   threadVars, contextVars>>

\* ExternalTap::sync from wait_with_output on (external.rs:112-132)
sync_wait ==
    /\ epc = "wait" /\ child.exited
    /\ eresult' = Returned("sync", SyncOutcome(child.exit, child.stderr))
    /\ epc' = "done"
    /\ UNCHANGED <<cmd, child, pipe, emitted, writerVars, readerVars,
                   threadVars, contextVars>>

NextExternal ==
    \/ \E starts \in BOOLEAN : \E stdout \in DiscoverStdouts :
         \E stderr \in Stderrs : \E exit \in Exits :
           discover(starts, stdout, stderr, exit)
    \/ \E starts \in BOOLEAN : \E stdout \in SyncStdouts :
         \E stderr \in Stderrs : \E exit \in Exits : \E held \in BOOLEAN :
           sync_begin(starts, Child(stdout, stderr, exit, held))
    \/ child_write
    \/ child_close
    \/ child_exit
    \/ holder_close
    \/ copy_read
    \/ sync_wait

SpecExternal == InitExternal /\ [][NextExternal]_vars

(***************************************************************************)
(* sync against a child that writes all of its output before it exits.     *)
(* The child has bytes to write to stdout and bytes to write to stderr,    *)
(* writes them in any order, and then exits, which closes its stdout.  Its *)
(* stderr goes to a pipe (Stdio::piped, external.rs:97) that sync has      *)
(* taken (external.rs:105) and reads only after the child has exited       *)
(* (external.rs:115-118): the pipe holds PipeCap bytes, and a write to a   *)
(* full pipe blocks until a reader makes room.                             *)
(***************************************************************************)
Program(stdout, stderr, exit) ==
    [started |-> TRUE, todo |-> stdout, stderr |-> stderr, exit |-> exit,
     exited |-> FALSE, open |-> TRUE, held |-> FALSE,
     etodo |-> stderr, epipe |-> <<>>]

\* what a child writes to stderr: nothing, less than the pipe holds, more
LogOutputs ==
    { <<>>,
      <<"a", "u", NL>>,
      <<"c", "o", "n", "n", "e", "c", "t", NL, "a", "u", "t", "h", NL>> }

InitDrain ==
    /\ wlive = TRUE /\ clones = 0
    /\ buf = <<>> /\ sink = <<>>
    /\ log = <<>> /\ reclaim = <<>>
    /\ rpc = "idle" /\ input = <<>> /\ pos = 1
    /\ schemas = EmptyContext
    /\ handed = <<>> /\ states = <<>> /\ seen = <<>> /\ result = <<>>
    /\ call = [h \in Handles |-> <<>>]
    /\ written = [h \in Handles |-> 0]
    /\ calls = [h \in Handles |-> 0]
    /\ owner = <<>> /\ running = 0 /\ switches = 0
    /\ options \in OptionMaps
    /\ setlog = <<>> /\ last = <<>>
    /\ epc = "idle" /\ cmd = <<>> /\ child = NoChild
    /\ pipe = <<>> /\ emitted = <<>> /\ eresult = <<>>

\* the child writes to stderr: as many bytes as the pipe has room for
child_write_err ==
    /\ child.started /\ ~child.exited /\ child.etodo # <<>>
    /\ Len(child.epipe) < PipeCap
    /\ \E n \in {k \in 1..Len(child.etodo) :
                   /\ k <= ChildChunk
                   /\ Len(child.epipe) + k <= PipeCap
                   /\ \/ k = Len(child.etodo) \/ k = ChildChunk
                      \/ Len(child.epipe) + k = PipeCap} :
         child' = [child EXCEPT
                     !.epipe = child.epipe \o SubSeq(child.etodo, 1, n),
                     !.etodo = SubSeq(child.etodo, n + 1, Len(child.etodo))]
    /\ UNCHANGED <<epc, cmd, pipe, emitted, eresult, writerVars, readerVars,
                   threadVars, contextVars>>

\* the child, all its output written, exits
child_finish ==
    /\ child.started /\ ~child.exited
    /\ child.todo = <<>> /\ child.etodo = <<>>
    /\ child' = [child EXCEPT !.exited = TRUE, !.open = FALSE]
    /\ UNCHANGED <<epc, cmd, pipe, emitted, eresult, writerVars, readerVars,
                   threadVars, contextVars>>

NextDrain ==
    \/ \E starts \in BOOLEAN : \E stdout \in SyncStdouts :
         \E stderr \in LogOutputs : \E exit \in Exits :
           sync_begin(starts, Program(stdout, stderr, exit))
    \/ child_write
    \/ child_write_err
    \/ child_finish
    \/ copy_read
    \/ sync_wait

SpecDrain == InitDrain /\ [][NextDrain]_vars

(***************************************************************************)
(* process_reader on an input that some tap has written: up to MaxLines    *)
(* lines, each the JSON of a message.  The stream names of the lines are   *)
(* whatever the tap put there, the empty string included.                  *)
(***************************************************************************)
NoName == <<>>

TapMessages ==
    { SchemaMsg(NoName, AnyDoc, <<>>, <<>>),
      NewRecord(NoName, JNull),
      SchemaMsg(StreamA, AnyDoc, <<>>, <<>>),
      NewRecord(StreamA, JNull),
      StateMsg(JNull) }

TapLines == {Json(m) \o <<NL>> : m \in TapMessages}

\* the inputs of n lines
RECURSIVE InputsOf(_)
InputsOf(n) ==
    IF n = 0 THEN {<<>>}
    ELSE {b \o l : b \in InputsOf(n - 1), l \in TapLines}

TapInputs == UNION {InputsOf(n) : n \in 0..MaxLines}

InitStreams ==
    /\ wlive = FALSE /\ clones = 0
    /\ buf = <<>> /\ sink \in TapInputs
    /\ log = <<>> /\ reclaim = <<>>
    /\ rpc = "idle" /\ input = <<>> /\ pos = 1
    /\ schemas = EmptyContext
    /\ handed = <<>> /\ states = <<>> /\ seen = <<>>
    /\ result = <<>>
    /\ call = [h \in Handles |-> <<>>]
    /\ written = [h \in Handles |-> 0]
    /\ calls = [h \in Handles |-> 0]
    /\ owner = <<>>
    /\ running = 0 /\ switches = 0
    /\ options = DefaultContext /\ setlog = <<>> /\ last = <<>>
    /\ epc = "idle" /\ cmd = <<>> /\ child = NoChild
    /\ pipe = <<>> /\ emitted = <<>> /\ eresult = <<>>

NextStreams ==
    \/ process_reader
    \/ next_message

SpecStreams == InitStreams /\ [][NextStreams]_vars

(***************************************************************************)
(* Reference computations for the properties.                              *)
(***************************************************************************)
\* the bytes one write call is to leave in the output
LineOf(e) == IF e.kind = "msg" THEN JsonOf[e.m] \o <<NL>> ELSE e.bytes

\* only write_message was called, and Written are its messages
OnlyMessages == \A i \in 1..Len(log) : log[i].kind = "msg"
Written == [i \in 1..Len(log) |-> log[i].m]

\* Everything the decoder yields from byte string b: the messages up to the
\* end of b (ok) or up to the first value that does not decode (~ok).
RECURSIVE DecodeFrom(_, _, _)
DecodeFrom(b, i, acc) ==
    LET n == StreamNext(b, i)
    IN  IF n.end THEN [ok |-> TRUE, msgs |-> acc]
        ELSE IF ~n.ok THEN [ok |-> FALSE, msgs |-> acc]
        ELSE DecodeFrom(b, n.next, Append(acc, n.m))

DecodeAll(b) == DecodeFrom(b, 1, <<>>)

IsRecord(m) == m.type = "Record"
IsState(m) == m.type = "State"
IsSchema(m) == m.type = "Schema"

\* the payloads and records the properties range over
Payloads ==
    {JNull, JInt(0), JStr(<<NL>>), AnyDoc, Person(1, <<"V">>), Person(0, <<>>)}

Records == {NewRecord(s, p) : s \in {StreamA, StreamB}, p \in Payloads}

\* the entries of seen that have been handed to the record handler
WasHanded(e) == IsRecord(e.m) /\ (e.res.ok \/ e.res.err = "HandlerError")

SeenMessages == [i \in 1..Len(seen) |-> seen[i].m]

\* seen[i] registered stream s: a Schema message for s that was processed Ok
Registers(i, s) ==
    IsSchema(seen[i].m) /\ seen[i].m.stream = s /\ seen[i].res = Ok

\* stream s was registered before seen[j] was dispatched
RegisteredBefore(j, s) == \E i \in 1..(j - 1) : Registers(i, s)

\* the first message that registered stream s
FirstRegistration(s) ==
    CHOOSE i \in 1..Len(seen) : Registers(i, s) /\ ~RegisteredBefore(i, s)

NotRegistered(s) == Err("JSONSchemaNotRegistered", s)

(***************************************************************************)
(* C1.  Schema gating: validate_record on a record whose stream has no     *)
(* schema in the context fails with "schema not registered" naming the     *)
(* stream, whatever the payload; and so did every record that the reader   *)
(* met before a schema of its stream.                                      *)
(***************************************************************************)
C1_SchemaGating ==
    /\ \A r \in Records :
         r.stream \notin DOMAIN schemas =>
           ValidateRecord(schemas, r) = NotRegistered(r.stream)
    /\ \A j \in 1..Len(seen) :
         (IsRecord(seen[j].m) /\ ~RegisteredBefore(j, seen[j].m.stream)) =>
           seen[j].res = NotRegistered(seen[j].m.stream)

\* a record of stream b was refused while stream a was registered
C1_Witness ==
    /\ StreamA \in DOMAIN schemas /\ StreamB \notin DOMAIN schemas
    /\ \E j \in 1..Len(seen) :
         IsRecord(seen[j].m) /\ seen[j].res = NotRegistered(StreamB)

(***************************************************************************)
(* C2.  Every record handed to the record handler belongs to a stream      *)
(* whose schema was registered by an earlier message of the same input,    *)
(* and is valid against the registered schema.                             *)
(***************************************************************************)
C2_HandedRecordsValidated ==
    /\ \A k \in 1..Len(handed) :
         /\ handed[k].stream \in DOMAIN schemas
         /\ IsValid(schemas[handed[k].stream], handed[k].record)
         /\ \E j \in 1..Len(seen) :
              seen[j].m = handed[k] /\ RegisteredBefore(j, handed[k].stream)
    /\ \A j \in 1..Len(seen) :
         (IsRecord(seen[j].m) /\ ~RegisteredBefore(j, seen[j].m.stream)) =>
           ~WasHanded(seen[j])

\* a record was handed over, and another one was refused
C2_Witness ==
    /\ Len(handed) = 1 /\ handed[1].stream = StreamA
    /\ \E j \in 1..Len(seen) : IsRecord(seen[j].m) /\ ~WasHanded(seen[j])

(***************************************************************************)
(* C3.  process_reader stops at the first error.  When it has returned:    *)
(* the messages dispatched are the first messages of the input, in order;  *)
(* all but the last were dispatched without error; the result is Ok only   *)
(* if the whole input was dispatched without error, and otherwise it is    *)
(* the error of the last message dispatched, or the decoding error of the  *)
(* value after it; and the handlers received nothing but the messages      *)
(* dispatched.                                                             *)
(***************************************************************************)
C3_AbortOnFirstError ==
    rpc = "done" =>
      LET D == DecodeAll(input)
          k == Len(seen)
          decodeError == Err("DeserializationError", <<>>)
      IN  /\ k <= Len(D.msgs)
          /\ SeenMessages = SubSeq(D.msgs, 1, k)
          /\ \A i \in 1..(k - 1) : seen[i].res.ok
          /\ result = <<Ok>> =>
               /\ D.ok /\ k = Len(D.msgs)
               /\ \A i \in 1..k : seen[i].res.ok
          /\ result # <<Ok>> =>
               \/ k > 0 /\ ~seen[k].res.ok /\ result = <<seen[k].res>>
               \/ /\ ~D.ok /\ k = Len(D.msgs) /\ result = <<decodeError>>
                  /\ \A i \in 1..k : seen[i].res.ok
          /\ handed = [i \in 1..Len(handed) |->
                         SelectSeq(seen, WasHanded)[i].m]
          /\ Len(handed) = Len(SelectSeq(seen, WasHanded))
          /\ states = SelectSeq(SeenMessages, IsState)

\* a record failed validation and the messages after it were not dispatched
C3_Witness ==
    /\ rpc = "done" /\ seen # <<>>
    /\ result = <<Err("JSONSchemaValidationError",
                      <<S_properties, S_id, S_minimum>>)>>
    /\ Len(seen) < Len(DecodeAll(input).msgs)

(***************************************************************************)
(* C4.  Registering a schema for a stream that has one succeeds and        *)
(* changes nothing: the stream keeps the validator of its first            *)
(* registration, also when the later document differs or does not compile. *)
(***************************************************************************)
C4_IdempotentRegistration ==
    /\ \A j \in 1..Len(seen) :
         (IsSchema(seen[j].m) /\ RegisteredBefore(j, seen[j].m.stream)) =>
           seen[j].res = Ok
    /\ \A s \in DOMAIN schemas :
         /\ \E i \in 1..Len(seen) : Registers(i, s)
         /\ schemas[s] = seen[FirstRegistration(s)].m.schema

\* stream a was registered twice, the second time with another document,
\* and a record the second document allows was refused under the first
C4_Witness ==
    \E i, j, k \in 1..Len(seen) :
      /\ i < j /\ j < k
      /\ Registers(i, StreamA) /\ Registers(j, StreamA)
      /\ seen[i].m.schema = PersonDoc /\ seen[j].m.schema = AnyDoc
      /\ IsRecord(seen[k].m) /\ ~seen[k].res.ok
      /\ IsValid(seen[j].m.schema, seen[k].m.record)

\* the writer has been flushed: nothing is left in the BufWriter
Flushed == buf = <<>>

\* the number of bytes the first k write calls are to leave in the output
EndOf(k) == Len(Flatten([i \in 1..k |-> LineOf(log[i])]))

NewlinesAt(b) == {p \in 1..Len(b) : b[p] = NL}

IsPrefix(a, b) == Len(a) <= Len(b) /\ a = SubSeq(b, 1, Len(a))

(***************************************************************************)
(* C6.  After messages m1..mN were written with write_message through one  *)
(* writer and the writer was flushed, the sink holds json(m1) "\n" ...     *)
(* json(mN) "\n" and nothing else.                                         *)
(***************************************************************************)
C6_OneLinePerMessage ==
    (OnlyMessages /\ Flushed) =>
      sink = Flatten([i \in 1..Len(log) |-> JsonOf[log[i].m] \o <<NL>>])

\* three messages were written and flushed through the live writer, and
\* part of them had gone to the sink before the flush
C6_Witness ==
    /\ wlive /\ OnlyMessages /\ Flushed /\ Len(log) = MaxWrites
    /\ Len(sink) > BufCap
    /\ log[1].m # log[2].m

(***************************************************************************)
(* C7.  After N messages were written and flushed the sink holds exactly N *)
(* newline bytes, each the last byte of one message's line; the JSON of a  *)
(* message holds no newline byte, whatever its strings hold.               *)
(***************************************************************************)
C7_NewlinePerMessage ==
    /\ \A m \in Messages : Count(JsonOf[m], NL) = 0
    /\ (OnlyMessages /\ Flushed) =>
         /\ Count(sink, NL) = Len(log)
         /\ NewlinesAt(sink) = {EndOf(k) : k \in 1..Len(log)}

\* messages whose strings hold a newline were written and flushed
C7_Witness ==
    /\ wlive /\ OnlyMessages /\ Flushed /\ Len(log) >= 2
    /\ \A i \in 1..Len(log) :
         \/ IsState(log[i].m) /\ log[i].m.value = JStr(<<BSLASH, "n", NL>>)
         \/ IsRecord(log[i].m) /\ log[i].m.record = Person(0, <<"x", NL, QUOTE>>)
    /\ \E i \in 1..Len(log) : IsState(log[i].m)
    /\ \E i \in 1..Len(log) : IsRecord(log[i].m)

(***************************************************************************)
(* C8.  Decoding what a flushed writer produced from messages m1..mN with  *)
(* the decoder of process_reader yields m1..mN: as many messages, in the   *)
(* same order, with the same variants and field values.                    *)
(***************************************************************************)
C8_RoundTrip ==
    (OnlyMessages /\ Flushed) =>
      DecodeAll(sink) = [ok |-> TRUE, msgs |-> Written]

\* a Schema, a Record with every optional field and a State were written,
\* flushed and decoded
C8_Witness ==
    /\ OnlyMessages /\ Flushed /\ Len(log) = 3
    /\ IsSchema(log[1].m) /\ log[1].m.bookmark_properties # <<>>
    /\ IsRecord(log[2].m) /\ log[2].m.time_extracted # <<>>
    /\ IsState(log[3].m)
    /\ Len(DecodeAll(sink).msgs) = 3

(***************************************************************************)
(* C9.  process_reader dispatches the messages of its input in arrival     *)
(* order, each once.  The handlers have received the first records and the *)
(* first states of the input, in input order; after a successful return,   *)
(* all of them.  A Schema followed by records valid against it succeeds,   *)
(* unless the handler fails, and the handler has received those records.   *)
(* A State is dispatched Ok whatever the registry holds.                   *)
(***************************************************************************)
C9_DispatchInOrder ==
    rpc # "idle" =>
      LET D == DecodeAll(input)
          records == SelectSeq(D.msgs, IsRecord)
          n == Len(D.msgs)
      IN  /\ IsPrefix(handed, records)
          /\ IsPrefix(states, SelectSeq(D.msgs, IsState))
          /\ result = <<Ok>> =>
               /\ D.ok
               /\ handed = records
               /\ states = SelectSeq(D.msgs, IsState)
          /\ ( /\ rpc = "done" /\ D.ok /\ n >= 1
               /\ IsSchema(D.msgs[1]) /\ Compiles(D.msgs[1].schema)
               /\ \A i \in 2..n :
                    /\ IsRecord(D.msgs[i])
                    /\ D.msgs[i].stream = D.msgs[1].stream
                    /\ IsValid(D.msgs[1].schema, D.msgs[i].record)
               /\ result # <<Err("HandlerError", <<>>)>> )
             => (result = <<Ok>> /\ handed = Tail(D.msgs))
          /\ \A j \in 1..Len(seen) : IsState(seen[j].m) => seen[j].res = Ok

\* a Schema and two different records valid against it were processed
C9_Witness ==
    /\ rpc = "done" /\ result = <<Ok>>
    /\ Len(seen) = 3 /\ IsSchema(seen[1].m)
    /\ Len(handed) = 2 /\ handed[1] # handed[2]

(***************************************************************************)
(* C10.  into_inner called while another handle of the writer is alive     *)
(* returns the ownership error and no sink; the call is always possible    *)
(* on a live writer.                                                       *)
(***************************************************************************)
C10_IntoInnerFailsWhenShared ==
    /\ (wlive /\ rpc = "idle") => ENABLED into_inner
    /\ (reclaim # <<>> /\ clones > 0) =>
         /\ ~reclaim[1].ok
         /\ reclaim[1].err = "OtherError"
         /\ "sink" \notin DOMAIN reclaim[1]

\* into_inner was called on a writer with written bytes and a clone alive
C10_Witness ==
    /\ reclaim # <<>> /\ clones > 0 /\ ~wlive
    /\ log # <<>>

\* the positions of the output that call c of a handle wrote
PositionsOf(c) == {p \in 1..Len(owner) : owner[p] = c}

Contiguous(P) == \A p, q \in P : \A r \in p..q : r \in P

(***************************************************************************)
(* C5.  Write atomicity: when several handles of one writer call           *)
(* write_message concurrently, the bytes of each call, its newline         *)
(* included, are contiguous in the output: no byte of another call falls   *)
(* among them.                                                             *)
(***************************************************************************)
C5_WriteAtomicity ==
    \A h \in Handles : \A k \in 1..MaxCalls : Contiguous(PositionsOf(<<h, k>>))

\* the set_option calls so far that named option k
SetsOf(k) == SelectSeq(setlog, LAMBDA e : e[1] = k)

IsCall(name) == last # <<>> /\ last[1].call = name

(***************************************************************************)
(* C14.  After any sequence of set_option calls, get_option(k) returns the *)
(* "invalid option" error for a k that is none of config, catalog, state,  *)
(* properties, the "option not set" error for one of these that was never  *)
(* set, and otherwise the value of the latest set_option(k, _).            *)
(***************************************************************************)
C14_OptionLookup ==
    /\ \A k \in Options :
         GetOption(options, k) =
           IF k \notin {"config", "catalog", "state", "properties"}
           THEN Err("InvalidOption", k)
           ELSE IF SetsOf(k) = <<>> THEN Err("OptionNotSet", k)
           ELSE Some(SetsOf(k)[Len(SetsOf(k))][2])
    /\ IsCall("get_option") =>
         last[1].res = GetOption(options, last[1].option)

\* config was set twice, to different paths, and then looked up; another
\* option was never set, and an unknown one was tried
C14_Witness ==
    /\ IsCall("get_option") /\ last[1].option = "config"
    /\ setlog = << <<"config", "/a.json">>, <<"Config", "/a.json">>,
                   <<"config", "/b.json">> >>
    /\ last[1].res = Some("/b.json")

(***************************************************************************)
(* C18.  Converting a Message m to variant K succeeds, with the payload of *)
(* m, iff m is of variant K; otherwise it fails with the "invalid          *)
(* conversion" error, which names K as the expected variant and the        *)
(* variant of m as the one found.                                          *)
(***************************************************************************)
C18_StrictConversion ==
    IsCall("try_from") =>
      LET c == last[1]
      IN  /\ c.res.ok <=> c.m.type = c.K
          /\ c.res.ok => c.res.value = Payload(c.m)
          /\ ~c.res.ok =>
               /\ c.res.err = "InvalidConversion"
               /\ c.res.detail.expected = TargetName(c.K)
               /\ c.res.detail.found = Ty(c.m)

\* the streams registered by the messages dispatched so far
RegisteredStreams ==
    {seen[i].m.stream : i \in {j \in 1..Len(seen) : IsSchema(seen[j].m)
                                                   /\ seen[j].res = Ok}}

\* the outcome of validating payload v against document doc
Verdict(doc, v) ==
    IF Violations(doc, v) = <<>> THEN Ok
    ELSE Err("JSONSchemaValidationError", Head(Violations(doc, v)))

(***************************************************************************)
(* C19.  validate_record on a record of a registered stream succeeds iff   *)
(* the payload satisfies the stream's schema, and otherwise fails with the *)
(* validation error that describes the first violated constraint; either   *)
(* way the context is as the Schema messages alone have made it.           *)
(***************************************************************************)
C19_ValidateRecordVerdict ==
    /\ \A r \in Records :
         r.stream \in DOMAIN schemas =>
           ValidateRecord(schemas, r) = Verdict(schemas[r.stream], r.record)
    /\ (StreamA \in DOMAIN schemas /\ schemas[StreamA] = PersonDoc) =>
         /\ ValidateRecord(schemas, NewRecord(StreamA, Person(1, <<"V">>))) = Ok
         /\ ValidateRecord(schemas, NewRecord(StreamA, Person(0, <<"x">>)))
              = Err("JSONSchemaValidationError",
                    <<S_properties, S_id, S_minimum>>)
    /\ \A j \in 1..Len(seen) :
         (IsRecord(seen[j].m) /\ RegisteredBefore(j, seen[j].m.stream)) =>
           LET doc == seen[FirstRegistration(seen[j].m.stream)].m.schema
               v == Verdict(doc, seen[j].m.record)
           IN  IF v.ok THEN WasHanded(seen[j]) ELSE seen[j].res = v
    /\ DOMAIN schemas = RegisteredStreams
    /\ \A s \in RegisteredStreams :
         schemas[s] = seen[FirstRegistration(s)].m.schema

\* under the Person schema one record was accepted and the next refused
C19_Witness ==
    /\ Len(seen) = 3 /\ Registers(1, StreamA) /\ schemas[StreamA] = PersonDoc
    /\ IsRecord(seen[2].m) /\ seen[2].res = Ok
    /\ IsRecord(seen[3].m)
    /\ seen[3].res = Err("JSONSchemaValidationError",
                         <<S_properties, S_id, S_minimum>>)

\* the call of op has returned
HasReturned(op) == eresult # <<>> /\ eresult[1].op = op

\* the child of the call was started and has exited unsuccessfully
ChildFailed == child.started /\ child.exited /\ ~Success(child.exit)

\* the last line of b that holds a byte, b holding a byte other than NL
LastNonEmptyLine(b) ==
    LET j == CHOOSE j \in 1..Len(b) :
                 b[j] # NL /\ \A k \in (j + 1)..Len(b) : b[k] = NL
        i == CHOOSE i \in 1..j :
                 /\ \A k \in i..j : b[k] # NL
                 /\ i = 1 \/ b[i - 1] = NL
    IN  SubSeq(b, i, j)

\* C11: when the child of sync exits with a nonzero code or with none,
\* sync returns a command error that carries the exit code, and its detail
\* is the last non-empty line the child wrote to stderr, or the fixed
\* fallback text when the child wrote nothing to stderr.
C11_SyncErrorDetail ==
    (HasReturned("sync") /\ ChildFailed) =>
        /\ ~eresult[1].res.ok
        /\ eresult[1].res.err = "CommandError"
        /\ eresult[1].res.detail.code = child.exit
        /\ child.stderr = <<>> => eresult[1].res.detail.detail = NoStderr
        /\ Count(child.stderr, NL) < Len(child.stderr) =>
             eresult[1].res.detail.detail = LastNonEmptyLine(child.stderr)

\* C12: when the child of discover exits with a nonzero code or with none,
\* discover returns a command error that carries the exit code and the
\* JSON value of stderr written out as a string, and never a Catalog.
C12_DiscoverFailure ==
    (HasReturned("discover") /\ ChildFailed) =>
        /\ ~eresult[1].res.ok
        /\ eresult[1].res.err = "CommandError"
        /\ eresult[1].res.detail.code = child.exit
        /\ FromSlice(child.stderr).ok =>
             eresult[1].res.detail.detail
               = ToJsonString(FromSlice(child.stderr).value)

\* the call tried to start the program and could not
SpawnFailed == cmd # <<>> /\ ~child.started

\* C13: when the program cannot be started, discover and sync return the
\* "failed to execute" error and not a command error; a command error is
\* returned only for a child that was started and has exited unsuccessfully.
C13_SpawnFailureDistinct ==
    eresult # <<>> =>
        /\ SpawnFailed =>
             ~eresult[1].res.ok /\ eresult[1].res.err = "ExecError"
        /\ (~eresult[1].res.ok /\ eresult[1].res.err = "ExecError") =>
             SpawnFailed
        /\ (~eresult[1].res.ok /\ eresult[1].res.err = "CommandError") =>
             ChildFailed

C13_Witness == HasReturned("sync") /\ SpawnFailed

\* C15: on a Context whose config option is unset, discover and sync fail
\* with the "option not set" error for config; no program is started, and
\* nothing is written to the writer.
C15_ConfigRequired ==
    options["config"] = <<>> =>
        /\ cmd = <<>> /\ child = NoChild
        /\ buf = <<>> /\ sink = <<>>
        /\ eresult # <<>> => eresult[1].res = Err("OptionNotSet", "config")

C15_Witness ==
    /\ HasReturned("sync")
    /\ options["config"] = <<>> /\ options["catalog"] # <<>>

\* sync has been called
SyncCalled == epc \in {"copy", "wait"} \/ HasReturned("sync")

FlagOf ==
    [k \in OptionNames |->
       CASE k = "config" -> "--config"
         [] k = "catalog" -> "--catalog"
         [] k = "state" -> "--state"
         [] k = "properties" -> "--properties"]

\* the flag and path of each option that is set, config first and then
\* catalog, state and properties
FlagsInOrder ==
    Flatten([i \in 1..Len(OptionOrder) |->
               IF options[OptionOrder[i]] = <<>> THEN <<>>
               ELSE <<FlagOf[OptionOrder[i]], options[OptionOrder[i]][1]>>])

\* C16: with config set, sync invokes the program with --config <path>
\* followed by --catalog <path>, --state <path> and --properties <path>
\* for exactly those of the three options that are set, in that order; an
\* unset one gives no argument and no error.
C16_SyncCommandLine ==
    (SyncCalled /\ options["config"] # <<>>) =>
        /\ cmd = FlagsInOrder
        /\ eresult # <<>> =>
             \/ eresult[1].res.ok
             \/ eresult[1].res.err \notin {"OptionNotSet", "InvalidOption"}

C16_Witness ==
    /\ HasReturned("sync") /\ child.started
    /\ options["config"] # <<>> /\ options["catalog"] = <<>>
    /\ options["state"] # <<>> /\ options["properties"] # <<>>

\* the bytes the writer has taken: those passed on, then those buffered
Taken == sink \o buf

\* C17: when sync returns success, the bytes it has written to the writer
\* are the bytes the child wrote to stdout, in the same order, nothing
\* added and nothing dropped; while sync runs, they are the bytes read from
\* the pipe so far.
C17_ByteForByteCopy ==
    SyncCalled =>
        /\ Taken \o pipe = emitted
        /\ (eresult # <<>> /\ eresult[1].res.ok) => Taken = emitted

C17_Witness ==
    /\ HasReturned("sync") /\ eresult[1].res.ok
    /\ emitted = JsonOf[StateMsg(JInt(-12))] \o <<NL>>
    /\ sink # <<>> /\ buf # <<>>

\* a read of the child's stdout pipe gives end of file
AtEOF == pipe = <<>> /\ ~WriteEndOpen

\* C20: sync waits for the child's exit status, and returns success or a
\* command error, only once the copy has read the child's stdout to its
\* end: the pipe is empty and its write end closed.  A child that has
\* exited while the write end is held open does not make sync return.
C20_WaitAfterEOF ==
    /\ (SyncCalled /\ epc = "wait") => AtEOF
    /\ (HasReturned("sync") /\ child.started) => AtEOF
    /\ (SyncCalled /\ child.started /\ ~AtEOF) => epc = "copy" /\ eresult = <<>>

C20_Witness ==
    /\ epc = "copy" /\ eresult = <<>>
    /\ child.started /\ child.exited /\ child.held
    /\ pipe = <<>> /\ Taken = emitted /\ emitted # <<>>

CompilationError == Err("JSONSchemaCompilationError", <<>>)

\* documents that are no schema: type must name a type, and a schema is an
\* object
NotSchemas == {BadDoc, JInt(1)}

(***************************************************************************)
(* C21.  insert_schema with a document that is not a valid schema fails    *)
(* with the compilation error and leaves the registry as it was: the       *)
(* stream is not registered by it, a stream registered before keeps its    *)
(* validator, and no other stream's validator is touched.                  *)
(***************************************************************************)
C21_FailedInsertLeavesRegistry ==
    /\ \A s \in {StreamA, StreamB} : \A doc \in NotSchemas :
         InsertSchema(schemas, SchemaMsg(s, doc, <<>>, <<>>))
           = <<CompilationError, schemas>>
    /\ \A j \in 1..Len(seen) :
         (/\ IsSchema(seen[j].m) /\ seen[j].m.schema \in NotSchemas
          /\ ~RegisteredBefore(j, seen[j].m.stream)) =>
           /\ seen[j].res = CompilationError
           /\ j = Len(seen) => seen[j].m.stream \notin DOMAIN schemas

\* process_reader met a Schema message whose document is no schema, for a
\* stream not yet registered, and returned the compilation error
C21_Witness ==
    /\ seen # <<>> /\ IsSchema(seen[Len(seen)].m)
    /\ seen[Len(seen)].m.schema = BadDoc
    /\ result = <<CompilationError>>
    /\ StreamA \notin DOMAIN schemas
    /\ handed = <<>>

(***************************************************************************)
(* C22.  A stream name is never empty: no Schema or Record that            *)
(* process_reader accepted, no record handed to the record handler and no  *)
(* key of the registry has the empty stream name.                          *)
(***************************************************************************)
C22_StreamNameNeverEmpty ==
    /\ \A j \in 1..Len(seen) :
         (seen[j].res.ok /\ (IsSchema(seen[j].m) \/ IsRecord(seen[j].m))) =>
           seen[j].m.stream # <<>>
    /\ \A k \in 1..Len(handed) : handed[k].stream # <<>>
    /\ \A s \in DOMAIN schemas : s # <<>>

\* the child is not blocked: it can write to stdout, or to a stderr pipe
\* that has room, or exit
ChildCanStep ==
    /\ child.started /\ ~child.exited
    /\ \/ child.todo # <<>>
       \/ child.etodo # <<>> /\ Len(child.epipe) < PipeCap
       \/ child.todo = <<>> /\ child.etodo = <<>>

\* sync is not blocked: the copy can read bytes or the end of stdout, or
\* the child it waits for has exited
SyncCanStep ==
    \/ epc = "copy" /\ (pipe # <<>> \/ ~WriteEndOpen)
    \/ epc = "wait" /\ child.exited

(***************************************************************************)
(* C23.  Sync terminates whatever the child writes to stderr: while sync   *)
(* has not returned, the child or sync can take a step; sync is never      *)
(* blocked reading stdout while the child is blocked writing to the stderr *)
(* pipe that nobody drains.                                                *)
(***************************************************************************)
C23_SyncNeverBlocked ==
    (epc \in {"copy", "wait"}) => (ChildCanStep \/ SyncCanStep)

\* every byte the write calls made so far are to leave in the output
AllWritten == Flatten([i \in 1..Len(log) |-> LineOf(log[i])])

(***************************************************************************)
(* C24.  into_inner on a writer with no other live handle succeeds (the    *)
(* handle of the writer's own serializer does not count) and returns the   *)
(* sink holding every byte written so far, in write order, the bytes still *)
(* in the buffer included.                                                 *)
(***************************************************************************)
C24_SoleOwnerReclaims ==
    [][(wlive /\ clones = 0 /\ reclaim = <<>> /\ reclaim' # <<>>) =>
          /\ reclaim'[1].ok
          /\ reclaim'[1].sink = AllWritten
          /\ reclaim'[1].sink = sink \o buf]_vars

\* into_inner succeeded after three writes, part of whose bytes were still
\* in the buffer: the writes were not followed by a flush
C24_Witness ==
    /\ reclaim # <<>> /\ reclaim[1].ok /\ clones = 0
    /\ Len(log) = MaxWrites
    /\ Len(reclaim[1].sink) > BufCap
    /\ log[MaxWrites].kind = "msg"
    /\ reclaim[1].sink = AllWritten

\* no handle of the writer is left
AllDropped == StrongCount(wlive, clones) = 0

(***************************************************************************)
(* C25.  No written message is lost on drop.  As stated: the bytes that    *)
(* write_message accepts stay in the writer's buffer until flush,          *)
(* into_inner or the drop of the last handle, so that a write_message call *)
(* leaves the sink as it was.                                              *)
(***************************************************************************)
C25_BytesStayBuffered ==
    [][(Len(log') > Len(log) /\ log'[Len(log')].kind = "msg") =>
          sink' = sink]_vars

(***************************************************************************)
(* C25, amended.  The bytes that the write calls accepted are at every     *)
(* moment in the sink or behind it in the writer's buffer, in write order  *)
(* (the buffer passes bytes on when it is full); once the last handle is   *)
(* dropped, with or without a flush before, the buffer is empty and the    *)
(* sink holds all of them in order, so that a reader of the sink sees      *)
(* every written message.                                                  *)
(***************************************************************************)
C25_NothingLostOnDrop ==
    /\ sink \o buf = AllWritten
    /\ AllDropped => buf = <<>> /\ sink = AllWritten
    /\ (AllDropped /\ OnlyMessages /\ rpc = "idle") =>
         DecodeAll(sink) = [ok |-> TRUE, msgs |-> Written]

\* the writer was dropped, not reclaimed, after three messages that do not
\* fit into the buffer together
C25_Witness ==
    /\ AllDropped /\ reclaim = <<>> /\ rpc = "idle"
    /\ OnlyMessages /\ Len(log) = MaxWrites
    /\ Len(sink) > BufCap
    /\ IsRecord(log[MaxWrites].m)

====
